------------------------------ MODULE BaudTable ------------------------------
(***************************************************************************)
(* The baud rates F11 goes through (pigfx.c).  The rate the machine was    *)
(* started with is read back from the divisors of the UART and put in its  *)
(* place in the table; which rate is in use is read back from the          *)
(* divisors at every press, and comes back rounded.                        *)
(***************************************************************************)
EXTENDS Integers, Sequences, FiniteSetsExt

CONSTANT Divisors  \* the divisors, in sixty-fourths, the firmware may start with

VARIABLES
  baud,     \* the table
  divisor   \* the divisor registers of the UART, in sixty-fourths

CLOCK == 3000000 * 64

Rates == <<300, 600, 1200, 2400, 4800, 9600, 19200, 38400, 57600, 115200, 150000, -1, -1>>

(* uart0_getbaud *)
getbaud(f) ==
  LET b == IF f = 0 THEN 0 ELSE CLOCK \div f
  IN  IF CLOCK - b * f >= f \div 2 THEN b + 1 ELSE b

(* uart0_setbaud; the fractional divider has six bits. *)
setbaud(b) ==
  LET f1 == (3000000 % b) * 64
      fractional == f1 \div b
      rounded == IF f1 - fractional * b >= b \div 2 THEN fractional + 1 ELSE fractional
  IN  (3000000 \div b) * 64 + (rounded % 64)

End(table) == Min({i \in DOMAIN table : table[i] <= 0})

(* Slip: the rate in use is not skipped when it comes back a little low. *)
AboveExact(table, b) == Min({i \in DOMAIN table : table[i] <= 0 \/ table[i] >= b})

(* The first rate more than a hundredth above b, or the end. *)
Above(table, b) == Min({i \in DOMAIN table : table[i] <= 0 \/ table[i] >= b + b \div 100})

(* add_initial_baudrate: a rate that is nearly there already is left out. *)
Added(table, b) ==
  LET i == End(table)
      j == Above(table, b)
  IN  IF \E k \in 1 .. i - 1 : table[k] > b - b \div 100 /\ table[k] < b + b \div 100
      THEN table
      ELSE [k \in DOMAIN table |-> IF k < j \/ k > i THEN table[k]
                                   ELSE IF k = j THEN b ELSE table[k - 1]]

BaudInit ==
  /\ divisor \in Divisors
  /\ baud = Added(Rates, getbaud(divisor))

(* The first rate above the one in use; past the end, the first of all.    *)
Rotated(table, b) ==
  LET i == Above(table, b)
      j == IF table[i] = b THEN i + 1 ELSE i
  IN  IF table[i] < 0 \/ table[j] < 0 THEN 1 ELSE j

rotate_baudrate ==
  /\ divisor' = setbaud(baud[Rotated(baud, getbaud(divisor))])
  /\ UNCHANGED baud

-----------------------------------------------------------------------------
(* Properties. *)

(* The entry in use: the one nearest to the rate of the divisors. *)
Nearest(table, f) ==
  LET Off(i) == LET d == table[i] - getbaud(f) IN IF d < 0 THEN -d ELSE d
  IN  CHOOSE i \in 1 .. End(table) - 1 : \A k \in 1 .. End(table) - 1 : Off(i) <= Off(k)

(* Every press goes to the next rate of the table, and from the last to    *)
(* the first, although rates come back rounded; and the line then runs     *)
(* within a hundredth of the rate that is announced.                       *)
NextRate ==
  /\ Nearest(baud, divisor') = (Nearest(baud, divisor) % (End(baud) - 1)) + 1
  /\ LET b == baud[Nearest(baud, divisor')]
     IN  getbaud(divisor') \in b - b \div 100 .. b + b \div 100

RatesRotate == [][NextRate]_<<baud, divisor>>
=============================================================================
