------------------------------- MODULE Literal -------------------------------
(***************************************************************************)
(* parser.rs, the functions that read a literal.  A word is not spelled    *)
(* out: it is a record of what the str functions of the standard library   *)
(* say about its text, and the crate's own conditions are applied to that. *)
(*                                                                         *)
(*   text     the word, as keywords are compared with it                   *)
(*   lower    its to_lowercase()                                           *)
(*   number   {n} if it is the decimal number n, of any size, else {}      *)
(*   hex      {} without a 0x or 0X in front; {{n}} for the digits of n    *)
(*            behind it, {{}} for anything else                            *)
(*   before   the parts of what stands before the first `/`, split at      *)
(*            `.`, each as a number or {}                                  *)
(*   after    {} without a `/`; {{n}} or {{}} for what stands behind it    *)
(*   colon    whether it contains a `:`                                    *)
(*   v6       {bits} if what stands before the first `/` is an Ipv6Addr    *)
(*   parts    its parts split at `:`, each with its length and hex value   *)
(*                                                                         *)
(* A function that reads a literal returns its Result as an Option: {} is  *)
(* the error, whose tag and offset the caller knows.                       *)
(***************************************************************************)
EXTENDS Ast, Sequences

The(option) == CHOOSE v \in option : TRUE

(* The keywords of try_parse_proto and try_parse_dir. *)
ProtoWords == [ip |-> "Ip", ip6 |-> "Ip6", arp |-> "Arp", tcp |-> "Tcp", udp |-> "Udp", icmp |-> "Icmp"]
DirWords == [src |-> "Src", dst |-> "Dst"]

(* A word that is no literal of any kind. *)
Keyword(text) ==
  [text |-> text, lower |-> text, number |-> {}, hex |-> {}, before |-> <<{}>>, after |-> {},
   colon |-> FALSE, v6 |-> {}, parts |-> <<[len |-> 0, hex |-> {}]>>]

(* What these functions can answer: one natural number for the digits of a *)
(* part, one address of 128 bits, and one part more than there are `:`;    *)
(* an operator is in lower case, without digits, `.` and `:`.              *)
AtMostOne(S) == \A m, n \in S : m = n
Operators == {"not", "and", "or"}
IsText(w) ==
  /\ w.number \subseteq Nat /\ UNION w.hex \subseteq Nat /\ UNION w.after \subseteq Nat
  /\ AtMostOne(w.number) /\ AtMostOne(UNION w.hex) /\ AtMostOne(UNION w.after)
  /\ w.before \in Seq(SUBSET Nat)
  /\ w.v6 \subseteq SUBSET (0..127) /\ AtMostOne(w.v6)
  /\ w.parts \in Seq([len : Nat, hex : SUBSET Nat])
  /\ \A i \in DOMAIN w.parts : AtMostOne(w.parts[i].hex)
  /\ ~w.colon => Len(w.parts) = 1
  /\ w.text \in Operators \cup {"host"} => ~w.colon
  /\ w.text \in Operators =>
       w.lower = w.text /\ w.number = {} /\ w.hex = {} /\ Len(w.before) = 1

(* parse::<u8> and parse::<u16>: a number too large is an error. *)
FitsIn(max, number) == {n \in number : n <= max}
ParseU8(number) == FitsIn(255, number)
ParseU16(number) == FitsIn(U16Max, number)

-----------------------------------------------------------------------------
parse_port(w) == ParseU16(w.number)

parse_ipv4_octets(parts) ==
  LET octet(i) == {v \in ParseU16(parts[i]) : v <= 255}
  IN  IF Len(parts) = 4 /\ \A i \in 1..4 : octet(i) # {}
      THEN {U32(Bits(The(octet(1))), Bits(The(octet(2))), Bits(The(octet(3))), Bits(The(octet(4))))}
      ELSE {}

(* Some(prefix) as a singleton, of the prefix if there is one. *)
PrefixPart(w, allow_prefix, max) ==
  IF w.after = {} THEN {{}}
  ELSE IF allow_prefix THEN {{n} : n \in {n \in ParseU8(The(w.after)) : n <= max}}
  ELSE {}

parse_ipv6_literal(w, allow_prefix) ==
  {[addr |-> V6(bits), prefix |-> prefix] : bits \in w.v6, prefix \in PrefixPart(w, allow_prefix, 128)}

(* A prefix of an IPv4 address checked against the limit of IPv6. *)
MutParseAddrLiteral(w, allow_prefix) ==
  IF w.colon THEN parse_ipv6_literal(w, allow_prefix)
  ELSE {[addr |-> V4(bits), prefix |-> prefix] :
          bits \in parse_ipv4_octets(w.before), prefix \in PrefixPart(w, allow_prefix, 128)}

parse_addr_literal(w, allow_prefix) ==
  IF w.colon THEN parse_ipv6_literal(w, allow_prefix)
  ELSE {[addr |-> V4(bits), prefix |-> prefix] :
          bits \in parse_ipv4_octets(w.before), prefix \in PrefixPart(w, allow_prefix, 32)}

parse_mac_literal(w) ==
  IF Len(w.parts) = 6 /\ \A i \in 1..6 : w.parts[i].len = 2 /\ ParseU8(w.parts[i].hex) # {}
  THEN {[i \in 1..6 |-> Bits(The(w.parts[i].hex))]}
  ELSE {}

EtherTypeNames ==
  [ip |-> 2048, ip6 |-> 34525, ipv6 |-> 34525, arp |-> 2054, rarp |-> 32821]

parse_ethertype(w) ==
  IF w.lower \in DOMAIN EtherTypeNames THEN {EtherTypeNames[w.lower]}
  ELSE IF w.hex # {} THEN ParseU16(The(w.hex))
  ELSE ParseU16(w.number)
=============================================================================
