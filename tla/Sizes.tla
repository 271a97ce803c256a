------------------------------- MODULE Sizes -------------------------------
(***************************************************************************)
(* Sizes as users write them and as limactl takes them                     *)
(* (internal/lima/sizes.go): a written size is a number with one decimal   *)
(* and a unit, Lima reports bytes, and the flags of limactl edit take GiB  *)
(* as a binary floating-point number of MantissaBits bits.                 *)
(***************************************************************************)
EXTENDS Integers, FiniteSets

CONSTANTS Kilo,         (* from a unit to the next: 1024                    *)
          MantissaBits, (* of a float32: 24                                 *)
          IntBits,      (* of an int64 without its sign: 63                 *)
          Overflow      (* what a larger number becomes, which depends on   *)
                        (* the processor                                    *)

MaxInt == 2 ^ IntBits - 1

\* That a power of two is positive is arithmetic the provers do not have.
ASSUME SizesAssumption ==
  /\ Kilo \in Nat \ {0, 1} /\ MantissaBits \in Nat \ {0} /\ IntBits \in Nat \ {0}
  /\ MaxInt \in Nat \ {0}
  /\ Overflow \in {-(MaxInt + 1), MaxInt}

UnitNames == {"B", "KiB", "MiB", "GiB", "TiB"}
UnitSize ==
  [B |-> 1, KiB |-> Kilo, MiB |-> Kilo * Kilo, GiB |-> Kilo * Kilo * Kilo,
   TiB |-> Kilo * Kilo * Kilo * Kilo]

Sizes == [tenths : Nat, unit : UnitNames]

Int64(n) == IF n <= MaxInt THEN n ELSE Overflow

\* A fraction of a byte is cut off.  The product, a float64, is taken to be exact:
\* below 2^50 bytes what is cut off is the same.
ParseSize(s) == Int64((s.tenths * UnitSize[s.unit]) \div 10)

ValidSize(s) == ParseSize(s) > 0

\* Mutant: the largest unit that bytes reaches, whole number of it or not.
BestUnitLossy(bytes) ==
  CHOOSE u \in UnitNames :
    /\ UnitSize[u] <= bytes
    /\ \A w \in UnitNames : UnitSize[w] <= bytes => UnitSize[w] <= UnitSize[u]

\* The largest unit that bytes is a whole number of.
BestUnit(bytes) ==
  CHOOSE u \in UnitNames :
    /\ bytes % UnitSize[u] = 0
    /\ \A w \in UnitNames : bytes % UnitSize[w] = 0 => UnitSize[w] <= UnitSize[u]

FormatSize(bytes) ==
  IF bytes <= 0 THEN [tenths |-> 0, unit |-> "B"]
  ELSE [tenths |-> 10 * (bytes \div UnitSize[BestUnit(bytes)]), unit |-> BestUnit(bytes)]

-----------------------------------------------------------------------------

\* The distance of two floating-point numbers around bytes, at least a byte.
Ulp(bytes) ==
  LET k == CHOOSE k \in 0..IntBits :
             /\ bytes < 2 ^ (k + MantissaBits)
             /\ k = 0 \/ bytes >= 2 ^ (k - 1 + MantissaBits)
  IN 2 ^ k

\* The floating-point number nearest to bytes, the even one of two.
Rounded(bytes) ==
  LET ulp  == Ulp(bytes)
      down == ulp * (bytes \div ulp)
      rest == 2 * (bytes % ulp)
  IN IF rest < ulp \/ (rest = ulp /\ (bytes \div ulp) % 2 = 0) THEN down ELSE down + ulp

Refused == 0

\* Mutant: the flag's value is not converted back and compared.
GiBFlagValueTrusted == [bytes \in 1..MaxInt |-> Rounded(bytes)]

\* The bytes that limactl will understand, or a refusal.
GiBFlagValue ==
  [bytes \in 1..MaxInt |-> IF Rounded(bytes) = bytes THEN bytes ELSE Refused]

=============================================================================
