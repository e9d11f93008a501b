-------------------------------- MODULE CInt --------------------------------
(***************************************************************************)
(* The integer conversions of the C compiler the firmware is built with    *)
(* (arm-none-eabi-gcc, two's complement, 32-bit int).  Operands are        *)
(* promoted to int before an operation, so the models compute with plain   *)
(* integers and narrow exactly where the source assigns to, casts to or    *)
(* passes a narrower type.                                                 *)
(***************************************************************************)
EXTENDS Integers

\* Limits and value ranges of the narrow types (stdint.h).
INT8_MAX   == 127
INT8_MIN   == -128
INT16_MAX  == 32767
INT16_MIN  == -32768
UINT16_MAX == 65535

Int8   == INT8_MIN .. INT8_MAX
Int16  == INT16_MIN .. INT16_MAX
UInt16 == 0 .. UINT16_MAX

\* Narrowing conversions: the low bits, reinterpreted.
ToUInt16(x) == x % 65536
ToInt16(x)  == ((x + 32768) % 65536) - 32768
ToInt8(x)   == ((x + 128) % 256) - 128

abs(x) == IF x < 0 THEN -x ELSE x

\* C division by a positive constant truncates towards zero; \div is floor.
CDiv(x, n) == IF x < 0 THEN -((-x) \div n) ELSE x \div n

\* The two-sided limiter that ctrl.c writes as a pair of if statements.
Limit(x, bound) == IF x > bound THEN bound ELSE IF x < -bound THEN -bound ELSE x

=============================================================================
