------------------------------ MODULE Addresses ------------------------------
(***************************************************************************)
(* The parsers of addresses in luci2.js that the datatypes of the forms    *)
(* rest on: isNetmask() over the bytes parseIPv4() and parseIPv6() give,   *)
(* and parseIPv6() over the groups of an address.                          *)
(***************************************************************************)
EXTENDS Integers, Sequences, SequencesExt

CONSTANTS
  Groups,      \* 16-bit groups of an IPv6 address
  Dotted,      \* IPv4 addresses at the end of an IPv6 address
  Bytes,       \* bytes of a mask
  MaskLength   \* their number, 4 or 16

ASSUME AddressesAssumption ==
  /\ Groups \subseteq Nat /\ Bytes \subseteq Nat
  /\ Dotted \subseteq [1 .. 4 -> 0 .. 255]
  /\ MaskLength \in Nat

VARIABLE given  \* what is looked at or parsed

(* isNetmask()                                                             *)
HighBits == {254, 252, 248, 240, 224, 192, 128, 0}

IsNetmask(addr) ==
  LET c == SelectInSeq(addr, LAMBDA b : b # 255)
  IN  \/ c = 0
      \/ /\ addr[c] \in HighBits
         /\ \A i \in c + 1..Len(addr) : addr[i] = 0

(* parseIPv6: what is left and right of "::".  On the right an address     *)
(* with dots goes to parseIPv4, which gives four bytes; on the left it     *)
(* does not: parseInt() reads the decimal digits of its first byte as a    *)
(* hexadecimal group and stops at the dot.                                 *)
Invalid == <<-1>>

TwoBytes(groups) ==
  [i \in 1 .. 2 * Len(groups) |-> LET n == groups[(i + 1) \div 2]
                                  IN  IF i % 2 = 1 THEN n \div 256 ELSE n % 256]

ReadAsHex(n) == (n \div 100) * 256 + ((n \div 10) % 10) * 16 + (n % 10)

LeftGroups(a) == IF a.gap \/ a.dotted = <<>> THEN a.left
                 ELSE Append(a.left, ReadAsHex(a.dotted[1]))

(* Mutation: the groups after "::" follow those before it at once.         *)
JoinedLeft(l, r, zeros) == l \o r \o zeros

Joined(l, r, zeros) == l \o zeros \o r

ParseIPv6(a) ==
  LET l == TwoBytes(LeftGroups(a))
      r == IF a.gap THEN TwoBytes(a.right) \o a.dotted ELSE <<>>
      zeros == [i \in 1..16 - Len(l) - Len(r) |-> 0]
  IN  IF (r # <<>> /\ Len(l) + Len(r) > 15) \/ Len(l) > 16 THEN Invalid
      ELSE Joined(l, r, zeros)

-----------------------------------------------------------------------------
Addresses ==
  [left : BoundedSeq(Groups, 8), gap : BOOLEAN,
   right : BoundedSeq(Groups, 8), dotted : {<<>>} \cup Dotted]

(* The addresses of RFC 4291: eight groups, of which "::" replaces at      *)
(* least one and four bytes with dots the last two.                        *)
ProperIPv6(a) ==
  LET n == 2 * Len(a.left) + 2 * Len(a.right) + Len(a.dotted)
  IN  IF a.gap THEN n <= 14 ELSE n = 16 /\ a.right = <<>>

AddressesInit ==
  given \in [kind : {"mask"}, of : [1 .. MaskLength -> Bytes]]
             \cup [kind : {"address"},
                   of : {a \in Addresses : a.gap \/ (a.left # <<>> /\ a.right = <<>>)}]

AddressesSpec == AddressesInit /\ [][UNCHANGED given]_given

-----------------------------------------------------------------------------
(* The mask of the first "bits" bits.                                      *)
MaskOf(bits, len) ==
  [i \in 1 .. len |-> LET k == bits - 8 * (i - 1)
                      IN  IF k >= 8 THEN 255 ELSE IF k <= 0 THEN 0 ELSE 256 - 2 ^ (8 - k)]

MasksArePrefixes ==
  given.kind = "mask" =>
    (IsNetmask(given.of) <=>
       \E bits \in 0 .. 8 * Len(given.of) : given.of = MaskOf(bits, Len(given.of)))

(* The bytes of an address: those left of "::", zeros, those right of it.  *)
BytesOf(a) ==
  LET l == TwoBytes(a.left)
      r == TwoBytes(a.right) \o a.dotted
  IN  [i \in 1 .. 16 |-> IF i <= Len(l) THEN l[i]
                         ELSE IF i > 16 - Len(r) THEN r[i - (16 - Len(r))]
                         ELSE 0]

ProperIsAccepted ==
  given.kind = "address" /\ ProperIPv6(given.of) =>
    LET b == ParseIPv6(given.of)
    IN  /\ Len(b) = 16
        /\ \A i \in 1 .. 16 : \/ i <= 2 * Len(given.of.left)
                              \/ given.of.gap
                              \/ given.of.dotted = <<>>
                              => b[i] = BytesOf(given.of)[i]

(* isNetmask() is true of the masks of some prefix length and of no other  *)
(* bytes; parseIPv6() accepts every address there is, and gives its 16     *)
(* bytes with the ones left out as zeros, but for the bytes with dots that *)
(* end an address of six groups without "::".                              *)
AddressesParsed == MasksArePrefixes /\ ProperIsAccepted
=============================================================================
