---------------------------- MODULE MCAlgorithms -----------------------------
(***************************************************************************)
(* The sequential parts in one run: the heap, the baud table, the figures  *)
(* of GSX and the test of the timers.  They share no state; each behaviour *)
(* is about one of them, and the others stay as they are.                  *)
(***************************************************************************)
EXTENDS Nmalloc, BaudTable, GsxShapes, TimerClock

VARIABLES part,    \* what the behaviour is about
          figure,  \* the figure drawn
          clock    \* a last tick, the time since and an interval

others == <<part, figure, clock>>

-----------------------------------------------------------------------------
(* Inputs. *)
Firmware(rate) == (CLOCK + rate \div 2) \div rate
Customary == {75, 110, 150, 300, 1800, 7200, 9600, 14400, 28800, 31250, 56000, 76800,
              115200, 128000, 153600, 187500}

(* Where the fraction is not rounded up to 64. *)
StartingDivisors == {Firmware(rate) : rate \in Customary} \cup {f \in 1024 .. 1500 : f % 64 # 0}

Bracket == {<<0, 0>>, <<0, 1>>, <<1, 1>>}
Thirds  == {p \in (0 .. 31) \X (0 .. 31) : (p[1] + 2 * p[2]) % 3 = 0}

Points(w, h) == (0 .. w) \X (0 .. h)

(* Triangles, quadrangles, and five points from left to right and back.    *)
Polygons == [1 .. 3 -> Points(3, 4)] \cup [1 .. 4 -> Points(2, 2)]
Zigzags  == {[i \in 1 .. 5 |-> <<i - 1, ys[i]>>] : ys \in [1 .. 5 -> 0 .. 3]}

(* What atan2 of gfx.c gives for the points of small circles. *)
ArcTangents ==
  [p \in {<<0, 0>>, <<0, 1>>, <<1, 1>>, <<0, 2>>, <<1, 2>>, <<2, 2>>, <<0, 3>>, <<1, 3>>, <<2, 3>>} |->
     CASE p = <<0, 0>> -> 0   [] p[1] = p[2] -> 450 [] p[1] = 0 -> 900
       [] p = <<1, 2>> -> 640 [] p = <<1, 3>> -> 720 [] p = <<2, 3>> -> 560]

Tenths == {0, 100, 180, 450, 560, 640, 720, 900, 1080, 1800, 2000, 2700, 3600}

Markers == {"dot", "plus", "asterisk", "circle", "cross"}

Figures ==
  [kind : {"line"}, from : Points(7, 7), to : Points(8, 8)]
  \cup {f \in [kind : {"circle"}, at : Points(W - 1, H - 1), r : 0 .. 3] :
          \A c \in 1 .. 2 : f.at[c] \in f.r .. 6 - f.r}
  \cup [kind : {"polygon"}, points : Polygons \cup Zigzags]
  \cup {f \in [kind : {"bar"}, ll : Points(6, 6), ur : Points(6, 6)] :
          f.ll[1] <= f.ur[1] /\ f.ur[2] <= f.ll[2]}
  \cup [kind : {"marker"}, style : Markers, height : 0 .. 7]
  \cup [kind : {"text"}, length : 1 .. 2]
  \cup [kind : {"polyline"}, points : [1 .. 3 -> Points(2, 2)]]
  \cup [kind : {"arc"}, r : 0 .. 3, from : Tenths, to : Tenths]
  \cup [kind : {"graphic_cursor"}, at : Points(W - 1, H - 1)]
  \cup [kind : {"bitmap"}, at : Points(7, 7), width : 0 .. 4]

-----------------------------------------------------------------------------
NoClock  == [last |-> 0, elapsed |-> 0, interval |-> 0]
NoFigure == [kind |-> "none"]

AlgorithmsInit ==
  /\ Init /\ figure = NoFigure /\ clock = NoClock
  /\ \/ part = "baud" /\ BaudInit
     \/ /\ part \in {"heap", "figure", "clock"}
        /\ baud = Rates /\ divisor = Firmware(115200)

Heap == part = "heap" /\ Next /\ UNCHANGED <<others, baud, divisor>>

Baud == part = "baud" /\ rotate_baudrate /\ UNCHANGED <<others, vars>>

DrawFigure ==
  /\ part = "figure" /\ figure = NoFigure /\ figure' \in Figures
  /\ UNCHANGED <<part, clock, vars, baud, divisor>>

Tick ==
  /\ part = "clock" /\ clock = NoClock
  /\ clock' \in [last : 0 .. Period - 1, elapsed : -Slack .. Period - Slack - 1,
                 interval : 0 .. Period - Slack - 1]
  /\ UNCHANGED <<part, figure, vars, baud, divisor>>

AlgorithmsNext == Heap \/ Baud \/ DrawFigure \/ Tick

AlgorithmsSpec == AlgorithmsInit /\ [][AlgorithmsNext]_<<others, vars, baud, divisor>>

-----------------------------------------------------------------------------
(* Properties of the inputs. *)

(* Every polygon, filled solid: see PolygonSound; and in every style.      *)
PolygonsSound ==
  figure.kind = "polygon" =>
    /\ PolygonSound(figure.points)
    /\ Len(figure.points) = 5 => StyleSound(LAMBDA s : filled_polygon(figure.points, s))

(* Lines, also from and to points off the screen, and as far as they are   *)
(* on it circles, arcs, bars, markers, turned text, polylines, bitmaps and *)
(* the graphic cursor: see LineSound, CircleSound and what follows them.   *)
FiguresSound ==
  CASE figure.kind = "line" ->
         LineSound(figure.from[1], figure.from[2], figure.to[1], figure.to[2])
    [] figure.kind = "circle" ->
         /\ CircleSound(figure.at[1], figure.at[2], figure.r)
         /\ StyleSound(LAMBDA s : circle(figure.at[1], figure.at[2], figure.r, TRUE, s))
    [] figure.kind = "bar" ->
         /\ BarSound(figure.ll[1], figure.ll[2], figure.ur[1], figure.ur[2])
         /\ StyleSound(LAMBDA s : bar(figure.ll[1], figure.ll[2], figure.ur[1], figure.ur[2], s))
    [] figure.kind = "marker" -> MarkerSound(figure.style, 3, 3, figure.height)
    [] figure.kind = "text" -> TextSound(figure.length, 3, 3, 1, 2)
    [] figure.kind = "polyline" -> Range(figure.points) \subseteq draw_polyline(figure.points)
    [] figure.kind = "arc" -> ArcSound(3, 3, figure.r, figure.from, figure.to)
    [] figure.kind = "graphic_cursor" -> GraphicCursorSound(figure.at[1], figure.at[2])
    [] figure.kind = "bitmap" ->
         draw_bitmap(figure.at[1], figure.at[2], figure.width) =
           {p \in Screen : p[2] = figure.at[2] /\ p[1] - figure.at[1] \in 0 .. figure.width - 1}
    [] OTHER -> TRUE

(* Every last tick, time since and interval: see DueInTime.                *)
TimersInTime == DueInTime(clock.last, clock.elapsed, clock.interval)
=============================================================================
