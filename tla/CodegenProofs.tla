--------------------------- MODULE CodegenProofs ---------------------------
(***************************************************************************)
(* The label discipline of the code generator, for every expression, link  *)
(* type and snaplen: every label is placed exactly once, behind every jump *)
(* to it, and no `unreachable!()` is reached.                              *)
(***************************************************************************)
EXTENDS Codegen, SequenceTheorems, TLAPS

(* A piece of IR that places exactly the labels of P, once each, and jumps *)
(* forward to one of these or away to a label of X.                        *)
Sound(code, P, X) ==
  /\ code \in Seq(Entries)
  /\ \A i \in DOMAIN code : Places(code[i]) \subseteq P
  /\ \A l \in P : \E i \in DOMAIN code : l \in Places(code[i])
  /\ PlacedAtMostOnce(code)
  /\ \A i \in DOMAIN code : \A l \in Refs(code[i]) :
       l \in X \/ \E j \in DOMAIN code : i < j /\ l \in Places(code[j])
  /\ X \cap P = {}

-----------------------------------------------------------------------------
(* Pieces of IR. *)

(* Two pieces one after the other: the first may jump to labels that the   *)
(* second places.                                                          *)
LEMMA SoundCat ==
  ASSUME NEW c1, NEW c2, NEW P1, NEW P2, NEW X1, NEW X2, NEW X,
         Sound(c1, P1, X1), Sound(c2, P2, X2),
         X1 \subseteq X \cup P2, X2 \subseteq X,
         P1 \cap P2 = {}, X \cap (P1 \cup P2) = {}
  PROVE  Sound(c1 \o c2, P1 \cup P2, X)
<1> DEFINE cat == c1 \o c2
           m == Len(c1)
           n == Len(c2)
<1>1. c1 \in Seq(Entries) /\ c2 \in Seq(Entries)
  BY DEF Sound
<1> HIDE DEF Entries
<1>2. /\ m \in Nat /\ n \in Nat /\ DOMAIN c1 = 1..m /\ DOMAIN c2 = 1..n
      /\ cat \in Seq(Entries) /\ Len(cat) = m + n /\ DOMAIN cat = 1..(m + n)
      /\ \A i \in 1..m : cat[i] = c1[i]
      /\ \A i \in 1..n : cat[m + i] = c2[i]
  BY <1>1
<1>3. ASSUME NEW i \in 1..(m + n)
      PROVE  \/ i \in 1..m /\ cat[i] = c1[i]
             \/ i - m \in 1..n /\ i = m + (i - m) /\ cat[i] = c2[i - m]
  BY <1>2
<1> HIDE DEF cat, m, n
<1>4. \A i \in DOMAIN cat : Places(cat[i]) \subseteq P1 \cup P2
  <2> SUFFICES ASSUME NEW i \in 1..(m + n) PROVE Places(cat[i]) \subseteq P1 \cup P2
    BY <1>2
  <2>1. CASE i \in 1..m /\ cat[i] = c1[i]
    BY <1>2, <2>1 DEF Sound
  <2>2. CASE i - m \in 1..n /\ cat[i] = c2[i - m]
    BY <1>2, <2>2 DEF Sound
  <2> QED
    BY <1>3, <2>1, <2>2
<1>5. ASSUME NEW l \in P1 \cup P2 PROVE \E i \in DOMAIN cat : l \in Places(cat[i])
  <2>1. CASE l \in P1
    <3>1. PICK i \in 1..m : l \in Places(c1[i])
      BY <1>2, <2>1 DEF Sound
    <3> QED
      BY <1>2, <3>1
  <2>2. CASE l \in P2
    <3>1. PICK i \in 1..n : l \in Places(c2[i])
      BY <1>2, <2>2 DEF Sound
    <3>2. m + i \in DOMAIN cat
      BY <1>2
    <3> QED
      BY <1>2, <3>1, <3>2
  <2> QED
    BY <2>1, <2>2
<1>6. PlacedAtMostOnce(cat)
  <2> SUFFICES ASSUME NEW i \in 1..(m + n), NEW j \in 1..(m + n),
                      Places(cat[i]) \cap Places(cat[j]) # {}
               PROVE  i = j
    BY <1>2 DEF PlacedAtMostOnce
  <2>1. \A k \in 1..m : Places(c1[k]) \subseteq P1
    BY <1>2 DEF Sound
  <2>2. \A k \in 1..n : Places(c2[k]) \subseteq P2
    BY <1>2 DEF Sound
  <2>3. CASE i \in 1..m /\ cat[i] = c1[i] /\ j \in 1..m /\ cat[j] = c1[j]
    BY <1>2, <2>3 DEF Sound, PlacedAtMostOnce
  <2>4. CASE i - m \in 1..n /\ cat[i] = c2[i - m] /\ j - m \in 1..n /\ cat[j] = c2[j - m]
    <3>1. \A a, b \in 1..n : Places(c2[a]) \cap Places(c2[b]) # {} => a = b
      BY <1>2 DEF Sound, PlacedAtMostOnce
    <3>2. i - m = j - m
      BY <2>4, <3>1
    <3> QED
      BY <1>2, <3>2
  <2>5. CASE i \in 1..m /\ cat[i] = c1[i] /\ j - m \in 1..n /\ cat[j] = c2[j - m]
    BY <2>1, <2>2, <2>5
  <2>6. CASE i - m \in 1..n /\ cat[i] = c2[i - m] /\ j \in 1..m /\ cat[j] = c1[j]
    BY <2>1, <2>2, <2>6
  <2> QED
    BY <1>3, <2>3, <2>4, <2>5, <2>6
<1>7. ASSUME NEW i \in DOMAIN cat, NEW l \in Refs(cat[i])
      PROVE  l \in X \/ \E j \in DOMAIN cat : i < j /\ l \in Places(cat[j])
  <2>1. CASE i \in 1..m /\ cat[i] = c1[i]
    <3>1. l \in X1 \/ \E j \in 1..m : i < j /\ l \in Places(c1[j])
      BY <1>2, <2>1 DEF Sound
    <3>2. ASSUME NEW j \in 1..m, i < j, l \in Places(c1[j])
          PROVE  \E k \in DOMAIN cat : i < k /\ l \in Places(cat[k])
      BY <1>2, <3>2
    <3>3. ASSUME l \in P2 PROVE \E k \in DOMAIN cat : i < k /\ l \in Places(cat[k])
      <4>1. PICK j \in 1..n : l \in Places(c2[j])
        BY <1>2, <3>3 DEF Sound
      <4>2. m + j \in DOMAIN cat /\ i < m + j /\ cat[m + j] = c2[j]
        BY <1>2, <2>1
      <4> QED
        BY <4>1, <4>2
    <3> QED
      BY <3>1, <3>2, <3>3
  <2>2. CASE i - m \in 1..n /\ cat[i] = c2[i - m]
    <3>1. l \in X2 \/ \E j \in 1..n : i - m < j /\ l \in Places(c2[j])
      BY <1>2, <2>2 DEF Sound
    <3>2. ASSUME NEW j \in 1..n, i - m < j, l \in Places(c2[j])
          PROVE  \E k \in DOMAIN cat : i < k /\ l \in Places(cat[k])
      <4>1. m + j \in DOMAIN cat /\ i < m + j /\ cat[m + j] = c2[j]
        BY <1>2, <3>2
      <4> QED
        BY <3>2, <4>1
    <3> QED
      BY <3>1, <3>2
  <2> QED
    BY <1>2, <1>3, <2>1, <2>2
<1>8. cat \in Seq(Entries)
  BY <1>2
<1> QED
  BY <1>4, <1>5, <1>6, <1>7, <1>8 DEF Sound, cat

(* One entry. *)
LEMMA SoundOne ==
  ASSUME NEW e \in Entries, NEW X, Refs(e) \subseteq X, X \cap Places(e) = {}
  PROVE  Sound(<<e>>, Places(e), X)
<1> HIDE DEF Entries
<1>1. <<e>> \in Seq(Entries) /\ DOMAIN <<e>> = {1} /\ <<e>>[1] = e
  OBVIOUS
<1> QED
  BY <1>1 DEF Sound, PlacedAtMostOnce

(* No entry. *)
LEMMA SoundNone == ASSUME NEW X PROVE Sound(<<>>, {}, X)
  BY DEF Sound, PlacedAtMostOnce

(* An entry in front of a piece; it may jump into the piece. *)
LEMMA SoundBefore ==
  ASSUME NEW e \in Entries, NEW code, NEW P, NEW X, Sound(code, P, X),
         Places(e) = {}, Refs(e) \subseteq X \cup P
  PROVE  Sound(<<e>> \o code, P, X)
<1> HIDE DEF Entries
<1>1. Sound(<<e>>, {}, X \cup P)
  BY SoundOne
<1>2. X \cap P = {}
  BY DEF Sound
<1>3. Sound(<<e>> \o code, {} \cup P, X)
  BY <1>1, <1>2, SoundCat
<1> QED
  BY <1>3

(* A mark. *)
LEMMA MarkEntry ==
  ASSUME NEW l \in Nat
  PROVE  Mark(l) \in Entries /\ Refs(Mark(l)) = {} /\ Places(Mark(l)) = {l}
<1>1. Mark(l).op = "Mark" /\ Mark(l).label = l /\ Mark(l) \in Entries
  BY DEF Mark, Entries
<1>2. Mark(l).op \notin CondOps /\ Mark(l).op # "Jmp"
  BY <1>1 DEF CondOps
<1>3. Refs(Mark(l)) = {}
  BY <1>2 DEF Refs
<1> QED
  BY <1>1, <1>3 DEF Places

(* A label placed in front of a piece that does not jump to it. *)
LEMMA SoundMark ==
  ASSUME NEW l \in Nat, NEW code, NEW P, NEW X, Sound(code, P, X), l \notin P \cup X
  PROVE  Sound(<<Mark(l)>> \o code, {l} \cup P, X)
<1>1. Sound(<<Mark(l)>>, {l}, X)
  BY MarkEntry, SoundOne
<1>2. X \cap P = {}
  BY DEF Sound
<1> QED
  BY <1>1, <1>2, SoundCat

(* Instructions that do not jump. *)
IsPlain(e) == e \in Entries /\ Refs(e) = {} /\ Places(e) = {}

(* An entry of a plain operation is plain. *)
LEMMA PlainEntry ==
  ASSUME NEW k \in Word, NEW offset \in Offset, NEW op \in PlainOps
  PROVE  IsPlain([op |-> op, k |-> k, offset |-> offset])
<1> DEFINE e == [op |-> op, k |-> k, offset |-> offset]
<1>1. e.op = op /\ e \in Entries
  BY DEF Entries
<1>2. op \notin CondOps /\ op # "Jmp" /\ op # "Mark"
  BY DEF PlainOps, LoadOps, CondOps
<1> HIDE DEF e
<1>3. Refs(e) = {}
  BY <1>1, <1>2 DEF Refs
<1>4. Places(e) = {}
  BY <1>1, <1>2 DEF Places
<1> QED
  BY <1>1, <1>3, <1>4 DEF IsPlain, e

(* So is what each constructor of one makes. *)
LEMMA PlainEntries ==
  ASSUME NEW k \in Word, NEW offset \in Offset
  PROVE  /\ IsPlain(LdhAbs(k, offset)) /\ IsPlain(LdbAbs(k, offset)) /\ IsPlain(LdwAbs(k, offset))
         /\ IsPlain(LdxMsh(k, offset)) /\ IsPlain(LdhInd(k, offset))
         /\ IsPlain(AndK(k, offset)) /\ IsPlain(Ret(k, offset))
<1>1. {"LdhAbs", "LdbAbs", "LdwAbs", "LdxMsh", "LdhInd", "AndK", "Ret"} \subseteq PlainOps
  BY DEF PlainOps, LoadOps
<1> QED
  BY <1>1, PlainEntry DEF LdhAbs, LdbAbs, LdwAbs, LdxMsh, LdhInd, AndK, Ret

(* Conditional jumps to one of two labels. *)
IsJump(e, jt, jf) == e \in Entries /\ Refs(e) = {jt, jf} /\ Places(e) = {}

(* An entry of a conditional operation jumps to its two labels. *)
LEMMA CondEntry ==
  ASSUME NEW k \in Word, NEW offset \in Offset, NEW jt \in Nat, NEW jf \in Nat, NEW op \in CondOps
  PROVE  IsJump([op |-> op, k |-> k, jt |-> jt, jf |-> jf, offset |-> offset], jt, jf)
<1> DEFINE e == [op |-> op, k |-> k, jt |-> jt, jf |-> jf, offset |-> offset]
<1>1. e.op = op /\ e.jt = jt /\ e.jf = jf /\ e \in Entries
  BY DEF Entries
<1>2. op # "Jmp" /\ op # "Mark"
  BY DEF CondOps
<1> HIDE DEF e
<1>3. Refs(e) = {jt, jf}
  BY <1>1, <1>2 DEF Refs
<1>4. Places(e) = {}
  BY <1>1, <1>2 DEF Places
<1> QED
  BY <1>1, <1>3, <1>4 DEF IsJump, e

(* So does what each constructor of one makes. *)
LEMMA CondEntries ==
  ASSUME NEW k \in Word, NEW offset \in Offset, NEW jt \in Nat, NEW jf \in Nat
  PROVE  /\ IsJump(Jeq(k, jt, jf, offset), jt, jf) /\ IsJump(Jgt(k, jt, jf, offset), jt, jf)
         /\ IsJump(Jge(k, jt, jf, offset), jt, jf) /\ IsJump(Jset(k, jt, jf, offset), jt, jf)
  BY CondEntry DEF Jeq, Jgt, Jge, Jset, CondOps

(* A Jmp jumps to its one label. *)
LEMMA JmpEntry ==
  ASSUME NEW offset \in Offset, NEW target \in Nat
  PROVE  IsJump(Jmp(target, offset), target, target)
<1> DEFINE e == Jmp(target, offset)
<1>1. e.op = "Jmp" /\ e.target = target /\ e \in Entries
  BY DEF Entries, Jmp
<1>2. e.op \notin CondOps /\ e.op # "Mark"
  BY <1>1 DEF CondOps
<1> HIDE DEF e
<1>3. Refs(e) = {target}
  BY <1>1, <1>2 DEF Refs
<1>4. Places(e) = {}
  BY <1>2 DEF Places
<1> QED
  BY <1>1, <1>3, <1>4 DEF IsJump, e

(* Short sequences, an entry at a time. *)
LEMMA Unroll2 == ASSUME NEW a, NEW b PROVE <<a, b>> = <<a>> \o <<b>>
<1> DEFINE s == <<a>> \o <<b>>
<1>1. s \in Seq({a, b}) /\ Len(s) = 2
  OBVIOUS
<1>2. s[1] = a /\ s[2] = b
  OBVIOUS
<1>3. \A i \in 1..2 : s[i] = <<a, b>>[i]
  BY <1>2
<1>4. <<a, b>> \in Seq({a, b}) /\ Len(<<a, b>>) = 2
  OBVIOUS
<1> HIDE DEF s
<1> QED
  BY <1>1, <1>3, <1>4, SeqEqual DEF s

(* The same for three entries. *)
LEMMA Unroll3 == ASSUME NEW a, NEW b, NEW c PROVE <<a, b, c>> = <<a>> \o <<b, c>>
  OBVIOUS

(* For four. *)
LEMMA Unroll4 ==
  ASSUME NEW a, NEW b, NEW c, NEW d PROVE <<a, b, c, d>> = <<a>> \o <<b, c, d>>
  OBVIOUS

(* For five. *)
LEMMA Unroll5 ==
  ASSUME NEW a, NEW b, NEW c, NEW d, NEW e PROVE <<a, b, c, d, e>> = <<a>> \o <<b, c, d, e>>
  OBVIOUS

-----------------------------------------------------------------------------
(* Blocks: the pieces with the labels they take. *)

(* A block that starts with n labels taken and jumps away only to X. *)
Fine(g, n, X) ==
  /\ g.n \in Nat /\ n <= g.n
  /\ Sound(g.code, n..(g.n - 1), X)

(* The code of a block and the number of labels after it. *)
LEMMA BlockFields ==
  ASSUME NEW code, NEW n PROVE Block(code, n).code = code /\ Block(code, n).n = n
  BY DEF Block

(* What makes a block fine. *)
LEMMA FineIntro ==
  ASSUME NEW n \in Nat, NEW m \in Nat, n <= m, NEW X, NEW code, NEW P,
         Sound(code, P, X), P = n..(m - 1)
  PROVE  Fine(Block(code, m), n, X) /\ Block(code, m).n = m
<1>1. Sound(code, n..(m - 1), X)
  BY Zenon
<1> QED
  BY <1>1, BlockFields DEF Fine

(* A block that takes no label, or one. *)
LEMMA FineBlock ==
  ASSUME NEW n \in Nat, NEW X, NEW code
  PROVE  /\ Sound(code, {}, X) => Fine(Block(code, n), n, X)
         /\ Sound(code, {n}, X) => Fine(Block(code, n + 1), n, X)
<1>1. n..(n - 1) = {} /\ n..((n + 1) - 1) = {n} /\ n <= n /\ n <= n + 1 /\ n + 1 \in Nat
  OBVIOUS
<1> QED
  BY <1>1, FineIntro

(* One block after the other. *)
LEMMA FineCat ==
  ASSUME NEW n \in Nat, NEW X \in SUBSET (0..(n - 1)), NEW g, NEW h,
         Fine(g, n, X), Fine(h, g.n, X)
  PROVE  Fine(Cat(g, h), n, X) /\ Cat(g, h).n = h.n
<1>1. g.n \in Nat /\ n <= g.n /\ h.n \in Nat /\ g.n <= h.n
  BY DEF Fine
<1>2. (n..(g.n - 1)) \cup (g.n..(h.n - 1)) = n..(h.n - 1)
  BY <1>1
<1>3. (n..(g.n - 1)) \cap (g.n..(h.n - 1)) = {} /\ X \cap (n..(h.n - 1)) = {}
  BY <1>1
<1> DEFINE P1 == n..(g.n - 1)
           P2 == g.n..(h.n - 1)
<1>4. Sound(g.code, P1, X) /\ Sound(h.code, P2, X) /\ P1 \cap P2 = {} /\ X \cap (P1 \cup P2) = {}
      /\ P1 \cup P2 = n..(h.n - 1) /\ n <= h.n
  BY <1>1, <1>2, <1>3 DEF Fine
<1> HIDE DEF P1, P2
<1>5. Sound(g.code \o h.code, P1 \cup P2, X)
  BY <1>4, SoundCat
<1> DEFINE P == P1 \cup P2
<1>6. Sound(g.code \o h.code, P, X) /\ P = n..(h.n - 1) /\ n <= h.n
  BY <1>4, <1>5
<1> HIDE DEF P
<1>7. Fine(Block(g.code \o h.code, h.n), n, X) /\ Block(g.code \o h.code, h.n).n = h.n
  BY <1>1, <1>6, FineIntro
<1> QED
  BY <1>7, Zenon DEF Cat

(* A first try that goes on at label n, which is placed in front of the    *)
(* second.                                                                 *)
LEMMA FineElse ==
  ASSUME NEW n \in Nat, NEW t \in 0..(n - 1), NEW f \in 0..(n - 1), NEW g, NEW h,
         Fine(g, n + 1, {t, n}), Fine(h, g.n, {t, f})
  PROVE  Fine(Cat(g, Placing(n, h)), n, {t, f}) /\ Cat(g, Placing(n, h)).n = h.n
<1>1. g.n \in Nat /\ n + 1 <= g.n /\ h.n \in Nat /\ g.n <= h.n
  BY DEF Fine
<1> DEFINE P1 == (n + 1)..(g.n - 1)
           P2 == g.n..(h.n - 1)
<1>2. Sound(g.code, P1, {t, n}) /\ Sound(h.code, P2, {t, f})
  BY DEF Fine
<1>3. n \notin P2 \cup {t, f}
  BY <1>1
<1>4. P1 \cap ({n} \cup P2) = {} /\ {t, f} \cap (P1 \cup ({n} \cup P2)) = {}
  BY <1>1
<1>5. P1 \cup ({n} \cup P2) = n..(h.n - 1)
  BY <1>1
<1> HIDE DEF P1, P2
<1>6. Sound(<<Mark(n)>> \o h.code, {n} \cup P2, {t, f})
  BY <1>2, <1>3, SoundMark
<1>7. Sound(g.code \o (<<Mark(n)>> \o h.code), P1 \cup ({n} \cup P2), {t, f})
  BY <1>2, <1>4, <1>6, SoundCat
<1>8. n <= h.n
  BY <1>1
<1>9. Placing(n, h).code = <<Mark(n)>> \o h.code /\ Placing(n, h).n = h.n
  BY BlockFields DEF Placing
<1> DEFINE P == P1 \cup ({n} \cup P2)
           X == {t, f}
           code == g.code \o (<<Mark(n)>> \o h.code)
<1>10. Sound(code, P, X) /\ P = n..(h.n - 1)
  BY <1>5, <1>7
<1>11. Cat(g, Placing(n, h)) = Block(code, h.n)
  BY <1>9 DEF Cat
<1> HIDE DEF P, X, code
<1>12. Fine(Block(code, h.n), n, X) /\ Block(code, h.n).n = h.n
  BY <1>1, <1>8, <1>10, FineIntro
<1> QED
  BY <1>11, <1>12 DEF X

(* Where a block may jump away to, labels handed out before it. *)
Exits(branch) == {branch.on_true, branch.on_false}

(* Both labels of a branch have been handed out. *)
BranchOK(branch, n) == branch.on_true \in 0..(n - 1) /\ branch.on_false \in 0..(n - 1)

(* The labels of a branch. *)
LEMMA BranchFields ==
  ASSUME NEW t, NEW f
  PROVE  Branch(t, f).on_true = t /\ Branch(t, f).on_false = f /\ Exits(Branch(t, f)) = {t, f}
  BY DEF Branch, Exits

(* FineElse, of a branch. *)
LEMMA FineOrElse ==
  ASSUME NEW n \in Nat, NEW branch, BranchOK(branch, n), NEW g, NEW h,
         Fine(g, n + 1, Exits(Branch(branch.on_true, n))), Fine(h, g.n, Exits(branch))
  PROVE  Fine(Cat(g, Placing(n, h)), n, Exits(branch)) /\ Cat(g, Placing(n, h)).n = h.n
<1>1. Fine(g, n + 1, {branch.on_true, n}) /\ Fine(h, g.n, {branch.on_true, branch.on_false})
  BY BranchFields, Zenon DEF Exits
<1>2. branch.on_true \in 0..(n - 1) /\ branch.on_false \in 0..(n - 1)
  BY DEF BranchOK
<1>3. /\ Fine(Cat(g, Placing(n, h)), n, {branch.on_true, branch.on_false})
      /\ Cat(g, Placing(n, h)).n = h.n
  BY <1>1, <1>2, FineElse
<1> QED
  BY <1>3, Zenon DEF Exits

(* The branch of a block is one of a later block, and the branch to a      *)
(* label just taken is one of the block behind it.                         *)
LEMMA BranchLater ==
  ASSUME NEW n \in Nat, NEW m \in Nat, n <= m, NEW branch, BranchOK(branch, n)
  PROVE  /\ BranchOK(branch, m)
         /\ BranchOK(Branch(branch.on_true, n), n + 1)
         /\ Exits(branch) \in SUBSET (0..(n - 1))
         /\ branch.on_true \in Nat /\ branch.on_false \in Nat
<1>1. branch.on_true \in 0..(n - 1) /\ branch.on_false \in 0..(n - 1)
  BY DEF BranchOK
<1>2. BranchOK(branch, m)
  BY <1>1 DEF BranchOK
<1>3. BranchOK(Branch(branch.on_true, n), n + 1)
  BY <1>1, BranchFields DEF BranchOK
<1> QED
  BY <1>1, <1>2, <1>3 DEF Exits

-----------------------------------------------------------------------------
(* The blocks of Emit. *)

(* Bits gives words. *)
LEMMA BitsWord == ASSUME NEW k PROVE Bits(k) \in Word
  BY DEF Bits, Word

(* A test that falls through to its own label, of one load or of two       *)
(* instructions before the jump.                                           *)
LEMMA Gate ==
  ASSUME NEW n \in Nat, NEW X \in SUBSET (0..(n - 1)), NEW f \in X,
         NEW a, NEW b, NEW j, IsPlain(a), IsPlain(b), IsJump(j, n, f) \/ IsJump(j, f, n)
  PROVE  /\ Fine(Block(<<a, j, Mark(n)>>, n + 1), n, X)
         /\ Fine(Block(<<a, b, j, Mark(n)>>, n + 1), n, X)
<1>1. Mark(n) \in Entries /\ Refs(Mark(n)) = {} /\ Places(Mark(n)) = {n} /\ n \notin X
  BY MarkEntry
<1>2. Sound(<<Mark(n)>>, {n}, X)
  BY <1>1, SoundOne
<1>3. j \in Entries /\ Places(j) = {} /\ Refs(j) \subseteq X \cup {n}
  BY DEF IsJump
<1>4. Sound(<<j>> \o <<Mark(n)>>, {n}, X)
  BY <1>2, <1>3, SoundBefore
<1>5. Sound(<<j, Mark(n)>>, {n}, X)
  BY <1>4, Unroll2, Zenon
<1>6. a \in Entries /\ Places(a) = {} /\ Refs(a) \subseteq X \cup {n}
  BY DEF IsPlain
<1>7. b \in Entries /\ Places(b) = {} /\ Refs(b) \subseteq X \cup {n}
  BY DEF IsPlain
<1>8. Sound(<<a>> \o <<j, Mark(n)>>, {n}, X) /\ Sound(<<b>> \o <<j, Mark(n)>>, {n}, X)
  BY <1>5, <1>6, <1>7, SoundBefore
<1>9. Sound(<<a, j, Mark(n)>>, {n}, X) /\ Sound(<<b, j, Mark(n)>>, {n}, X)
  BY <1>8, Unroll3, Zenon
<1>10. Sound(<<a>> \o <<b, j, Mark(n)>>, {n}, X)
  BY <1>6, <1>9, SoundBefore
<1>11. Sound(<<a, b, j, Mark(n)>>, {n}, X)
  BY <1>10, Unroll4, Zenon
<1> QED
  BY <1>9, <1>11, FineBlock

(* The gate on the network layer, when there is a field to test: the       *)
(* ethertype, or the version nibble for IPv4 and IPv6.                     *)
LEMMA L3Gate ==
  ASSUME NEW n \in Nat, NEW X \in SUBSET (0..(n - 1)), NEW f \in X, NEW cx,
         NEW ethertype, NEW offset \in Offset,
         cx.eth_field # {} \/ ethertype \in {ETH_TYPE_IP, ETH_TYPE_IPV6}
  PROVE  Fine(emit_l3_gate(cx, n, ethertype, offset, f), n, X)
<1> DEFINE field == Bits(The(cx.eth_field))
           base == Bits(cx.ip_base)
           high == 4..7
<1>1. field \in Word /\ base \in Word /\ Bits(ethertype) \in Word
  BY BitsWord
<1>2. high \in Word /\ {6} \in Word /\ {5, 6} \in Word
  BY DEF Word
<1> HIDE DEF field, base, high
<1>3. f \in Nat
  OBVIOUS
<1>4. IsPlain(LdhAbs(field, offset)) /\ IsPlain(LdbAbs(base, offset)) /\ IsPlain(AndK(high, offset))
  BY <1>1, <1>2, PlainEntries
<1>5. \A k \in Word : IsJump(Jeq(k, n, f, offset), n, f)
  BY <1>3, CondEntries
<1>6. CASE cx.eth_field # {}
  <2>1. emit_l3_gate(cx, n, ethertype, offset, f)
          = gate_ldh_eq(n, The(cx.eth_field), ethertype, offset, f)
    BY <1>6, Zenon DEF emit_l3_gate
  <2>2. Fine(gate_ldh_eq(n, The(cx.eth_field), ethertype, offset, f), n, X)
    BY <1>1, <1>4, <1>5, Gate DEF gate_ldh_eq, field
  <2> QED
    BY <2>1, <2>2, Zenon
<1>7. ASSUME NEW k \in Word PROVE Fine(gate_ip_version(cx, n, k, offset, f), n, X)
  <2>1. IsJump(Jeq(k, n, f, offset), n, f)
    BY <1>5
  <2> QED
    BY <1>4, <2>1, Gate DEF gate_ip_version, base, high
<1>8. CASE cx.eth_field = {} /\ ethertype = ETH_TYPE_IP
  <2>0. ~(cx.eth_field # {}) /\ ETH_TYPE_IP # ETH_TYPE_IPV6
    BY <1>8 DEF ETH_TYPE_IP, ETH_TYPE_IPV6
  <2>1. emit_l3_gate(cx, n, ethertype, offset, f) = gate_ip_version(cx, n, {6}, offset, f)
    BY <1>8, <2>0, Zenon DEF emit_l3_gate
  <2> QED
    BY <1>2, <1>7, <2>1, Zenon
<1>9. CASE cx.eth_field = {} /\ ethertype = ETH_TYPE_IPV6
  <2>0. ~(cx.eth_field # {}) /\ ETH_TYPE_IP # ETH_TYPE_IPV6
    BY <1>9 DEF ETH_TYPE_IP, ETH_TYPE_IPV6
  <2>1. emit_l3_gate(cx, n, ethertype, offset, f) = gate_ip_version(cx, n, {5, 6}, offset, f)
    BY <1>9, <2>0, Zenon DEF emit_l3_gate
  <2> QED
    BY <1>2, <1>7, <2>1, Zenon
<1> QED
  BY <1>6, <1>8, <1>9

(* The same and the gate on the protocol field. *)
LEMMA ProtoGates ==
  ASSUME NEW n \in Nat, NEW X \in SUBSET (0..(n - 1)), NEW f \in X, NEW cx,
         NEW ethertype, NEW at, NEW ip_proto, NEW offset \in Offset,
         cx.eth_field # {} \/ ethertype \in {ETH_TYPE_IP, ETH_TYPE_IPV6}
  PROVE  Fine(emit_ethertype_and_proto_gates(cx, n, ethertype, at, ip_proto, offset, f), n, X)
<1> DEFINE l3 == emit_l3_gate(cx, n, ethertype, offset, f)
           g == gate_ldb_eq(l3.n, cx.ip_base + at, The(ip_proto), offset, f)
<1>1. Fine(l3, n, X)
  BY L3Gate
<1>2. emit_ethertype_and_proto_gates(cx, n, ethertype, at, ip_proto, offset, f)
        = IF ip_proto = {} THEN l3 ELSE Cat(l3, g)
  BY Zenon DEF emit_ethertype_and_proto_gates
<1> HIDE DEF l3
<1>3. l3.n \in Nat /\ n <= l3.n
  BY <1>1 DEF Fine
<1>4. Fine(g, l3.n, X)
  <2>1. IsPlain(LdbAbs(Bits(cx.ip_base + at), offset))
    BY BitsWord, PlainEntries
  <2>2. IsJump(Jeq(Bits(The(ip_proto)), l3.n, f, offset), l3.n, f) /\ X \in SUBSET (0..(l3.n - 1))
    BY <1>3, BitsWord, CondEntries
  <2> QED
    BY <1>3, <2>1, <2>2, Gate DEF gate_ldb_eq
<1> HIDE DEF g
<1>5. Fine(Cat(l3, g), n, X)
  BY <1>1, <1>4, FineCat
<1> QED
  BY <1>1, <1>2, <1>5, Zenon

(* The gate that lets no later fragment pass. *)
LEMMA NotFragment ==
  ASSUME NEW n \in Nat, NEW X \in SUBSET (0..(n - 1)), NEW f \in X, NEW cx, NEW offset \in Offset
  PROVE  Fine(emit_not_fragment_gate(cx, n, offset, f), n, X)
<1>1. IsPlain(LdhAbs(Bits(cx.ip_base + IP_FLAGS_FRAG_OFFSET), offset))
  BY BitsWord, PlainEntries
<1>2. FRAG_MASK \in Word /\ f \in Nat
  BY DEF FRAG_MASK, Word
<1>3. IsJump(Jset(FRAG_MASK, f, n, offset), f, n)
  BY <1>2, CondEntries
<1> QED
  BY <1>1, <1>3, Gate DEF emit_not_fragment_gate

(* A plain instruction, and pieces that take no label. *)
LEMMA SoundPlain == ASSUME NEW e, IsPlain(e), NEW X PROVE Sound(<<e>>, {}, X)
  BY SoundOne DEF IsPlain

(* A jump by itself leaves for its two labels. *)
LEMMA SoundJump ==
  ASSUME NEW e, NEW t, NEW f, IsJump(e, t, f), NEW X, t \in X, f \in X PROVE Sound(<<e>>, {}, X)
  BY SoundOne DEF IsJump

(* Two pieces that place no label. *)
LEMMA SoundPlainCat ==
  ASSUME NEW c1, NEW c2, NEW X, Sound(c1, {}, X), Sound(c2, {}, X)
  PROVE  Sound(c1 \o c2, {}, X)
<1>1. Sound(c1 \o c2, {} \cup {}, X)
  BY SoundCat
<1> QED
  BY <1>1

(* A netmask is a word, and masking takes no label. *)
LEMMA NetmaskWord == ASSUME NEW prefix PROVE netmask(prefix) \in Word
  BY DEF netmask, Shl, Zero, Word

(* Masking places nothing and goes nowhere. *)
LEMMA MaskingSound ==
  ASSUME NEW mask \in Word, NEW offset \in Offset, NEW X
  PROVE  Sound(Masking(mask, offset), {}, X)
<1>1. Sound(<<AndK(mask, offset)>>, {}, X)
  BY PlainEntries, SoundPlain
<1> QED
  BY <1>1, SoundNone DEF Masking

(* An IPv4 address is compared in one word. *)
LEMMA AddrTerminal ==
  ASSUME NEW n \in Nat, NEW branch, BranchOK(branch, n), NEW cx, NEW gates, NEW dir,
         NEW mask \in SUBSET Word, NEW target \in Word, NEW offset \in Offset
  PROVE  /\ Fine(emit_addr_terminal(cx, n, gates, dir, mask, target, offset, branch), n, Exits(branch))
         /\ emit_addr_terminal(cx, n, gates, dir, mask, target, offset, branch).n = n
<1> DEFINE X == Exits(branch)
           step == IF dir = "Src" THEN gates.src_offset ELSE gates.dst_offset
           load == LdwAbs(Bits(cx.ip_base + step), offset)
           masked == IF mask = {} THEN <<>> ELSE Masking(The(mask), offset)
           jump == Jeq(target, branch.on_true, branch.on_false, offset)
<1>1. Sound(<<load>>, {}, X)
  BY BitsWord, PlainEntries, SoundPlain
<1>2. Sound(masked, {}, X)
  <2>1. CASE mask = {}
    BY <2>1, SoundNone
  <2>2. CASE mask # {}
    <3>1. The(mask) \in mask
      BY <2>2 DEF The
    <3>2. Sound(Masking(The(mask), offset), {}, X)
      BY <3>1, MaskingSound
    <3> QED
      BY <2>2, <3>2
  <2> QED
    BY <2>1, <2>2
<1>3. Sound(<<jump>>, {}, X)
  <2>1. IsJump(jump, branch.on_true, branch.on_false)
    BY BranchLater, CondEntries
  <2> HIDE DEF jump
  <2> QED
    BY <2>1, SoundJump DEF Exits
<1>4. emit_addr_terminal(cx, n, gates, dir, mask, target, offset, branch)
        = Block((<<load>> \o masked) \o <<jump>>, n)
  BY Zenon DEF emit_addr_terminal
<1> HIDE DEF load, masked, jump, X
<1>5. Sound((<<load>> \o masked) \o <<jump>>, {}, X)
  BY <1>1, <1>2, <1>3, SoundPlainCat
<1>6. Fine(Block((<<load>> \o masked) \o <<jump>>, n), n, X)
  BY <1>5, FineBlock
<1> QED
  BY <1>4, <1>6, BlockFields, Zenon DEF X

(* A word of an IPv6 address, one of `words`: all but the last fall        *)
(* through to a label of their own.                                        *)
LEMMA Addr6WordFine ==
  ASSUME NEW n \in Nat, NEW branch, BranchOK(branch, n), NEW cx, NEW step, NEW addr, NEW prefix,
         NEW words \in Nat, NEW i \in 0..(words - 1), NEW offset \in Offset
  PROVE  Fine(Block(Addr6Word(cx, n, step, addr, prefix, words, i, offset, branch),
                    IF i = words - 1 THEN n + i ELSE n + i + 1), n + i, Exits(branch))
<1> DEFINE X == Exits(branch)
           word == {b \in 0..31 : b + (96 - 32 * i) \in addr}
           mask == netmask(IF prefix - 32 * i < 32 THEN prefix - 32 * i ELSE 32)
           last == i = words - 1
           next == IF last THEN branch.on_true ELSE n + i
           load == LdwAbs(Bits(cx.ip_base + step + 4 * i), offset)
           jump == Jeq(word \cap mask, next, branch.on_false, offset)
           mark == IF last THEN <<>> ELSE <<Mark(next)>>
           P == IF last THEN {} ELSE {n + i}
           code == ((<<load>> \o Masking(mask, offset)) \o <<jump>>) \o mark
<1>1. n + i \in Nat /\ X \subseteq 0..(n - 1) /\ n + i \notin X
  BY BranchLater
<1>2. mask \in Word /\ word \cap mask \in Word
  BY NetmaskWord DEF Word
<1>3. next \in Nat /\ branch.on_false \in Nat /\ branch.on_true \in Nat
  BY <1>1, BranchLater
<1>4. IsJump(jump, next, branch.on_false)
  BY <1>2, <1>3, CondEntries
<1>5. Sound(<<load>>, {}, X \cup P)
  BY BitsWord, PlainEntries, SoundPlain
<1>6. Sound(Masking(mask, offset), {}, X \cup P)
  BY <1>2, MaskingSound
<1>7. next \in X \cup P /\ branch.on_false \in X \cup P
  BY DEF Exits
<1>8. Sound(<<jump>>, {}, X \cup P)
  BY <1>4, <1>7, SoundJump
<1>9. Sound(mark, P, X)
  <2>1. CASE last
    BY <2>1, SoundNone
  <2>2. CASE ~last
    <3>1. /\ Mark(n + i) \in Entries /\ Refs(Mark(n + i)) \subseteq X
          /\ Places(Mark(n + i)) = {n + i} /\ X \cap {n + i} = {}
      BY <1>1, MarkEntry
    <3>2. Sound(<<Mark(n + i)>>, {n + i}, X)
      BY <3>1, SoundOne
    <3>3. mark = <<Mark(n + i)>> /\ P = {n + i}
      BY <2>2
    <3> QED
      BY <3>2, <3>3, Zenon
  <2> QED
    BY <2>1, <2>2
<1>10. X \cap P = {}
  BY <1>1
<1>11. Addr6Word(cx, n, step, addr, prefix, words, i, offset, branch) = code
  BY Zenon DEF Addr6Word
<1>12. P = (n + i)..((IF last THEN n + i ELSE n + i + 1) - 1)
  <2>1. (n + i)..((n + i) - 1) = {} /\ (n + i)..((n + i + 1) - 1) = {n + i}
    BY <1>1
  <2>2. CASE last
    BY <2>1, <2>2
  <2>3. CASE ~last
    BY <2>1, <2>3
  <2> QED
    BY <2>2, <2>3
<1>13. n + i <= (IF last THEN n + i ELSE n + i + 1) /\ (IF last THEN n + i ELSE n + i + 1) \in Nat
  BY <1>1
<1> HIDE DEF load, mask, jump, mark, P, X
<1>14. Sound(code, P, X)
  <2>1. Sound((<<load>> \o Masking(mask, offset)) \o <<jump>>, {}, X \cup P)
    BY <1>5, <1>6, <1>8, SoundPlainCat
  <2>2. Sound(code, {} \cup P, X)
    <3> DEFINE front == (<<load>> \o Masking(mask, offset)) \o <<jump>>
    <3>1. Sound(front, {}, X \cup P) /\ code = front \o mark
      BY <2>1
    <3> HIDE DEF front, code
    <3> QED
      BY <1>9, <1>10, <3>1, SoundCat
  <2>3. {} \cup P = P
    OBVIOUS
  <2> HIDE DEF code
  <2> QED
    BY <2>2, <2>3, Zenon
<1> DEFINE top == IF last THEN n + i ELSE n + i + 1
<1> HIDE DEF code
<1>15. Fine(Block(code, top), n + i, X)
  <2>1. top \in Nat /\ n + i <= top /\ P = (n + i)..(top - 1)
    BY <1>12, <1>13
  <2> HIDE DEF top
  <2> QED
    BY <1>1, <1>14, <2>1, FineIntro
<1> QED
  BY <1>11, <1>15, Zenon DEF X

(* An empty block. *)
LEMMA FineEmpty == ASSUME NEW n \in Nat, NEW X PROVE Fine(Block(<<>>, n), n, X)
  BY SoundNone, FineBlock

(* An IPv6 address is compared word by word, or not at all. *)
LEMMA Addr6Terminal ==
  ASSUME NEW n \in Nat, NEW branch, BranchOK(branch, n), NEW cx, NEW gates, NEW dir,
         NEW addr, NEW prefix \in 0..128, NEW offset \in Offset
  PROVE  Fine(emit_addr6_terminal(cx, n, gates, dir, addr, prefix, offset, branch), n, Exits(branch))
<1> DEFINE X == Exits(branch)
           step == IF dir = "Src" THEN gates.src_offset ELSE gates.dst_offset
           words == (prefix + 31) \div 32
           WordCode(i) == IF i < words
                          THEN Addr6Word(cx, n, step, addr, prefix, words, i, offset, branch)
                          ELSE <<>>
           Top(i) == n + (IF i < words - 1 THEN i ELSE words - 1)
<1>1. words \in 0..4
  OBVIOUS
<1>2. emit_addr6_terminal(cx, n, gates, dir, addr, prefix, offset, branch)
        = IF words = 0 THEN Block(<<Jmp(branch.on_true, offset)>>, n)
          ELSE Block(((WordCode(0) \o WordCode(1)) \o WordCode(2)) \o WordCode(3), n + words - 1)
  BY Zenon DEF emit_addr6_terminal
<1>3. X \in SUBSET (0..(n - 1)) /\ branch.on_true \in Nat /\ branch.on_true \in X
  BY BranchLater DEF Exits
<1>4. CASE words = 0
  <2>1. Sound(<<Jmp(branch.on_true, offset)>>, {}, X)
    BY <1>3, JmpEntry, SoundJump
  <2>2. Fine(Block(<<Jmp(branch.on_true, offset)>>, n), n, X)
    BY <2>1, FineBlock
  <2> QED
    BY <1>2, <1>4, <2>2, Zenon
<1>5. CASE words # 0
  <2> HIDE DEF words, step, X
  <2>1. ASSUME NEW i \in 0..3
        PROVE  Fine(Block(WordCode(i), Top(i + 1)), Top(i), X) /\ Top(i) \in Nat /\ n <= Top(i)
    <3>1. CASE i < words
      <4>1. i \in 0..(words - 1) /\ words \in Nat
        BY <1>1, <3>1
      <4>2. Fine(Block(Addr6Word(cx, n, step, addr, prefix, words, i, offset, branch),
                       IF i = words - 1 THEN n + i ELSE n + i + 1), n + i, Exits(branch))
        BY <4>1, Addr6WordFine
      <4>3. Top(i) = n + i /\ Top(i + 1) = IF i = words - 1 THEN n + i ELSE n + i + 1
        BY <4>1
      <4>4. WordCode(i) = Addr6Word(cx, n, step, addr, prefix, words, i, offset, branch)
        BY <3>1
      <4>5. Top(i) \in Nat /\ n <= Top(i)
        BY <4>1, <4>3
      <4> HIDE DEF WordCode, Top
      <4> QED
        BY <4>2, <4>3, <4>4, <4>5, Zenon DEF X
    <3>2. CASE ~(i < words)
      <4>1. Top(i) = n + (words - 1) /\ Top(i + 1) = n + (words - 1) /\ n + (words - 1) \in Nat
            /\ n <= n + (words - 1)
        BY <1>1, <1>5, <3>2
      <4>2. WordCode(i) = <<>>
        BY <3>2
      <4>3. Fine(Block(<<>>, n + (words - 1)), n + (words - 1), X)
        BY <4>1, FineEmpty
      <4> HIDE DEF WordCode, Top
      <4> QED
        BY <4>1, <4>2, <4>3, Zenon
    <3> QED
      BY <3>1, <3>2
  <2>2. Top(0) = n /\ Top(4) = n + words - 1
    BY <1>1, <1>5
  <2>3. 1 = 0 + 1 /\ 2 = 1 + 1 /\ 3 = 2 + 1 /\ 4 = 3 + 1
    OBVIOUS
  <2> HIDE DEF WordCode, Top
  <2> DEFINE B0 == Block(WordCode(0), Top(1))
             B1 == Block(WordCode(1), Top(2))
             B2 == Block(WordCode(2), Top(3))
             B3 == Block(WordCode(3), Top(4))
  <2>4. /\ Fine(B0, n, X) /\ Fine(B1, B0.n, X) /\ Fine(B2, B1.n, X) /\ Fine(B3, B2.n, X)
        /\ B0.code = WordCode(0) /\ B1.code = WordCode(1) /\ B2.code = WordCode(2) /\ B3.code = WordCode(3)
        /\ B3.n = n + words - 1
    <3>1. Fine(B0, Top(0), X) /\ Fine(B1, Top(1), X) /\ Fine(B2, Top(2), X) /\ Fine(B3, Top(3), X)
      BY <2>1, <2>3
    <3> QED
      BY <2>2, <3>1, BlockFields
  <2> HIDE DEF B0, B1, B2, B3
  <2>5. Fine(Cat(B0, B1), n, X) /\ Cat(B0, B1).n = B1.n
    BY <1>3, <2>4, FineCat
  <2>6. Fine(Cat(Cat(B0, B1), B2), n, X) /\ Cat(Cat(B0, B1), B2).n = B2.n
    BY <1>3, <2>4, <2>5, FineCat
  <2>7. Fine(Cat(Cat(Cat(B0, B1), B2), B3), n, X)
    BY <1>3, <2>4, <2>6, FineCat
  <2>8. Cat(Cat(Cat(B0, B1), B2), B3)
          = Block(((WordCode(0) \o WordCode(1)) \o WordCode(2)) \o WordCode(3), n + words - 1)
    BY <2>4, BlockFields DEF Cat
  <2> QED
    BY <1>2, <1>5, <2>7, <2>8, Zenon DEF X
<1> QED
  BY <1>4, <1>5

-----------------------------------------------------------------------------
(* Ports. *)

(* emit_port_compare: one port or a range, one or two tests. *)
LEMMA PortCompare ==
  ASSUME NEW n \in Nat, NEW branch, BranchOK(branch, n), NEW lo, NEW hi, NEW offset \in Offset
  PROVE  Fine(emit_port_compare(n, lo, hi, offset, branch), n, Exits(branch))
<1> DEFINE X == Exits(branch)
           t == branch.on_true
           f == branch.on_false
           equal == Jeq(Bits(lo), t, f, offset)
           low == Jge(Bits(lo), n, f, offset)
           high == Jgt(Bits(hi), f, t, offset)
<1>1. X \in SUBSET (0..(n - 1)) /\ t \in Nat /\ f \in Nat /\ t \in X /\ f \in X /\ n \notin X
  BY BranchLater DEF Exits
<1>2. IsJump(equal, t, f) /\ IsJump(low, n, f) /\ IsJump(high, f, t)
  BY <1>1, BitsWord, CondEntries
<1>3. emit_port_compare(n, lo, hi, offset, branch)
        = IF lo = hi THEN Block(<<equal>>, n) ELSE Block(<<low, Mark(n), high>>, n + 1)
  BY Zenon DEF emit_port_compare
<1> HIDE DEF equal, low, high, X, t, f
<1>4. Fine(Block(<<equal>>, n), n, X)
  BY <1>1, <1>2, SoundJump, FineBlock
<1>5. Fine(Block(<<low, Mark(n), high>>, n + 1), n, X)
  <2>1. Sound(<<high>>, {}, X)
    BY <1>1, <1>2, SoundJump
  <2>2. Sound(<<Mark(n)>> \o <<high>>, {n} \cup {}, X)
    BY <1>1, <2>1, SoundMark
  <2>3. {n} \cup {} = {n}
    OBVIOUS
  <2>4. Sound(<<Mark(n), high>>, {n}, X)
    BY <2>2, <2>3, Unroll2, Zenon
  <2>5. low \in Entries /\ Places(low) = {} /\ Refs(low) \subseteq X \cup {n}
    BY <1>1, <1>2 DEF IsJump
  <2>6. Sound(<<low>> \o <<Mark(n), high>>, {n}, X)
    BY <2>4, <2>5, SoundBefore
  <2>7. Sound(<<low, Mark(n), high>>, {n}, X)
    BY <2>6, Unroll3, Zenon
  <2> QED
    BY <2>7, FineBlock
<1> QED
  BY <1>3, <1>4, <1>5, Zenon DEF X

(* A load and the comparison. *)
LEMMA PortTerminals ==
  ASSUME NEW n \in Nat, NEW branch, BranchOK(branch, n), NEW cx, NEW dir, NEW lo, NEW hi,
         NEW offset \in Offset
  PROVE  /\ Fine(emit_port_terminal(cx, n, dir, lo, hi, offset, branch), n, Exits(branch))
         /\ Fine(emit_port6_terminal(cx, n, dir, lo, hi, offset, branch), n, Exits(branch))
<1> DEFINE X == Exits(branch)
           load == LdhInd(Bits(cx.ip_base + PortRel(dir)), offset)
           load6 == LdhAbs(Bits(cx.ip_base + IP6_HEADER_LEN + PortRel(dir)), offset)
           compare == emit_port_compare(n, lo, hi, offset, branch)
<1>1. IsPlain(load) /\ IsPlain(load6)
  BY BitsWord, PlainEntries
<1>2. Fine(compare, n, X)
  BY PortCompare
<1>3. /\ emit_port_terminal(cx, n, dir, lo, hi, offset, branch) = Cat(Block(<<load>>, n), compare)
      /\ emit_port6_terminal(cx, n, dir, lo, hi, offset, branch) = Cat(Block(<<load6>>, n), compare)
  BY Zenon DEF emit_port_terminal, emit_port6_terminal
<1>4. X \in SUBSET (0..(n - 1))
  BY BranchLater
<1> HIDE DEF load, load6, compare, X
<1>5. ASSUME NEW e, IsPlain(e) PROVE Fine(Cat(Block(<<e>>, n), compare), n, X)
  <2>1. Fine(Block(<<e>>, n), n, X) /\ Block(<<e>>, n).n = n
    BY <1>5, SoundPlain, FineBlock, BlockFields
  <2> QED
    BY <1>2, <1>4, <2>1, FineCat
<1> QED
  BY <1>1, <1>3, <1>5, Zenon DEF X

(* Gates, and then a try in one direction and, failing that, in the other. *)
LEMMA TwoTries ==
  ASSUME NEW n \in Nat, NEW branch, BranchOK(branch, n), NEW g, NEW one, NEW two,
         Fine(g, n, Exits(branch)),
         Fine(one, g.n + 1, Exits(Branch(branch.on_true, g.n))),
         Fine(two, one.n, Exits(branch))
  PROVE  Fine(Cat(g, Cat(one, Placing(g.n, two))), n, Exits(branch))
<1>1. g.n \in Nat /\ n <= g.n
  BY DEF Fine
<1>2. BranchOK(branch, g.n) /\ Exits(branch) \in SUBSET (0..(n - 1))
  BY <1>1, BranchLater
<1>3. Fine(Cat(one, Placing(g.n, two)), g.n, Exits(branch))
  BY <1>1, <1>2, FineOrElse
<1> QED
  BY <1>2, <1>3, FineCat

(* The label counter behind a block, and the branches of what follows. *)
LEMMA Behind ==
  ASSUME NEW n \in Nat, NEW branch, BranchOK(branch, n), NEW g, NEW X, Fine(g, n, X)
  PROVE  /\ g.n \in Nat /\ n <= g.n /\ g.n + 1 \in Nat
         /\ BranchOK(branch, g.n)
         /\ BranchOK(Branch(branch.on_true, g.n), g.n + 1)
         /\ Exits(branch) \in SUBSET (0..(g.n - 1))
<1>1. g.n \in Nat /\ n <= g.n
  BY DEF Fine
<1>2. BranchOK(branch, g.n)
  BY <1>1, BranchLater
<1> QED
  BY <1>1, <1>2, BranchLater

(* What an IPv4 port check starts with. *)
LEMMA Port4Prologue ==
  ASSUME NEW n \in Nat, NEW branch, BranchOK(branch, n), NEW cx, NEW num, NEW offset \in Offset
  PROVE  Fine(port4_prologue(cx, n, num, offset, branch), n, Exits(branch))
<1> DEFINE X == Exits(branch)
           g == emit_ethertype_and_proto_gates(cx, n, ETH_TYPE_IP, IP_PROTO_OFFSET, {num},
                                               offset, branch.on_false)
           f == emit_not_fragment_gate(cx, g.n, offset, branch.on_false)
           load == LdxMsh(Bits(cx.ip_base), offset)
           msh == Block(<<load>>, f.n)
<1>1. X \in SUBSET (0..(n - 1)) /\ branch.on_false \in X
  BY BranchLater DEF Exits
<1>2. Fine(g, n, X)
  BY <1>1, ProtoGates
<1>3. port4_prologue(cx, n, num, offset, branch) = Cat(g, Cat(f, msh))
  BY Zenon DEF port4_prologue
<1> HIDE DEF g
<1>4. g.n \in Nat /\ X \in SUBSET (0..(g.n - 1))
  BY <1>2, Behind
<1>5. Fine(f, g.n, X)
  BY <1>1, <1>4, NotFragment
<1> HIDE DEF f
<1>6. f.n \in Nat
  BY <1>5 DEF Fine
<1>7. Fine(msh, f.n, X)
  <2>1. IsPlain(load)
    BY BitsWord, PlainEntries
  <2> HIDE DEF load
  <2> QED
    BY <1>6, <2>1, SoundPlain, FineBlock
<1> HIDE DEF msh, X
<1>8. Fine(Cat(f, msh), g.n, X)
  BY <1>4, <1>5, <1>7, FineCat
<1>9. Fine(Cat(g, Cat(f, msh)), n, X)
  BY <1>1, <1>2, <1>8, FineCat
<1> QED
  BY <1>3, <1>9, Zenon DEF X

(* port6_prologue: the carrier and the transport over IPv6. *)
LEMMA Port6Prologue ==
  ASSUME NEW n \in Nat, NEW branch, BranchOK(branch, n), NEW cx, NEW num, NEW offset \in Offset
  PROVE  Fine(port6_prologue(cx, n, num, offset, branch), n, Exits(branch))
<1>1. Exits(branch) \in SUBSET (0..(n - 1)) /\ branch.on_false \in Exits(branch)
  BY BranchLater DEF Exits
<1> QED
  BY <1>1, ProtoGates DEF port6_prologue

(* One direction of one IP version. *)
LEMMA PortOfVersion ==
  ASSUME NEW n \in Nat, NEW branch, BranchOK(branch, n), NEW cx, NEW num, NEW dir, NEW lo, NEW hi,
         NEW offset \in Offset
  PROVE  /\ Fine(compile_port4(cx, n, num, dir, lo, hi, offset, branch), n, Exits(branch))
         /\ Fine(compile_port6(cx, n, num, dir, lo, hi, offset, branch), n, Exits(branch))
<1> DEFINE g == port4_prologue(cx, n, num, offset, branch)
           h == port6_prologue(cx, n, num, offset, branch)
           X == Exits(branch)
<1>1. Fine(g, n, X) /\ Fine(h, n, X)
  BY Port4Prologue, Port6Prologue
<1>2. /\ compile_port4(cx, n, num, dir, lo, hi, offset, branch)
           = Cat(g, emit_port_terminal(cx, g.n, dir, lo, hi, offset, branch))
      /\ compile_port6(cx, n, num, dir, lo, hi, offset, branch)
           = Cat(h, emit_port6_terminal(cx, h.n, dir, lo, hi, offset, branch))
  BY Zenon DEF compile_port4, compile_port6
<1>3. X \in SUBSET (0..(n - 1))
  BY BranchLater
<1> HIDE DEF g, h
<1>4. g.n \in Nat /\ BranchOK(branch, g.n) /\ h.n \in Nat /\ BranchOK(branch, h.n)
  BY <1>1, Behind
<1>5. /\ Fine(emit_port_terminal(cx, g.n, dir, lo, hi, offset, branch), g.n, X)
      /\ Fine(emit_port6_terminal(cx, h.n, dir, lo, hi, offset, branch), h.n, X)
  BY <1>4, PortTerminals
<1> HIDE DEF X
<1>6. /\ Fine(Cat(g, emit_port_terminal(cx, g.n, dir, lo, hi, offset, branch)), n, X)
      /\ Fine(Cat(h, emit_port6_terminal(cx, h.n, dir, lo, hi, offset, branch)), n, X)
  BY <1>1, <1>3, <1>5, FineCat
<1> QED
  BY <1>2, <1>6, Zenon DEF X

(* Two directions of one IP version behind the same gates. *)
LEMMA PortPairOfVersion ==
  ASSUME NEW n \in Nat, NEW branch, BranchOK(branch, n), NEW cx, NEW num, NEW dir1, NEW dir2,
         NEW lo, NEW hi, NEW offset \in Offset
  PROVE  /\ Fine(compile_port4_pair(cx, n, num, dir1, dir2, lo, hi, offset, branch), n, Exits(branch))
         /\ Fine(compile_port6_pair(cx, n, num, dir1, dir2, lo, hi, offset, branch), n, Exits(branch))
<1>1. Fine(compile_port4_pair(cx, n, num, dir1, dir2, lo, hi, offset, branch), n, Exits(branch))
  <2> DEFINE g == port4_prologue(cx, n, num, offset, branch)
             one == emit_port_terminal(cx, g.n + 1, dir1, lo, hi, offset, Branch(branch.on_true, g.n))
             two == emit_port_terminal(cx, one.n, dir2, lo, hi, offset, branch)
  <2>1. Fine(g, n, Exits(branch))
    BY Port4Prologue
  <2>2. compile_port4_pair(cx, n, num, dir1, dir2, lo, hi, offset, branch)
          = Cat(g, Cat(one, Placing(g.n, two)))
    BY Zenon DEF compile_port4_pair
  <2> HIDE DEF g
  <2>3. /\ g.n + 1 \in Nat /\ g.n \in Nat /\ BranchOK(Branch(branch.on_true, g.n), g.n + 1)
        /\ BranchOK(branch, g.n)
    BY <2>1, Behind
  <2>4. Fine(one, g.n + 1, Exits(Branch(branch.on_true, g.n)))
    BY <2>3, PortTerminals
  <2> HIDE DEF one
  <2>5. one.n \in Nat /\ g.n <= one.n
    BY <2>3, <2>4 DEF Fine
  <2>6. BranchOK(branch, one.n)
    BY <2>3, <2>5, BranchLater
  <2>7. Fine(two, one.n, Exits(branch))
    BY <2>5, <2>6, PortTerminals
  <2> HIDE DEF two
  <2>8. Fine(Cat(g, Cat(one, Placing(g.n, two))), n, Exits(branch))
    BY <2>1, <2>4, <2>7, TwoTries
  <2> QED
    BY <2>2, <2>8, Zenon
<1>2. Fine(compile_port6_pair(cx, n, num, dir1, dir2, lo, hi, offset, branch), n, Exits(branch))
  <2> DEFINE g == port6_prologue(cx, n, num, offset, branch)
             one == emit_port6_terminal(cx, g.n + 1, dir1, lo, hi, offset, Branch(branch.on_true, g.n))
             two == emit_port6_terminal(cx, one.n, dir2, lo, hi, offset, branch)
  <2>1. Fine(g, n, Exits(branch))
    BY Port6Prologue
  <2>2. compile_port6_pair(cx, n, num, dir1, dir2, lo, hi, offset, branch)
          = Cat(g, Cat(one, Placing(g.n, two)))
    BY Zenon DEF compile_port6_pair
  <2> HIDE DEF g
  <2>3. /\ g.n + 1 \in Nat /\ g.n \in Nat /\ BranchOK(Branch(branch.on_true, g.n), g.n + 1)
        /\ BranchOK(branch, g.n)
    BY <2>1, Behind
  <2>4. Fine(one, g.n + 1, Exits(Branch(branch.on_true, g.n)))
    BY <2>3, PortTerminals
  <2> HIDE DEF one
  <2>5. one.n \in Nat /\ g.n <= one.n
    BY <2>3, <2>4 DEF Fine
  <2>6. BranchOK(branch, one.n)
    BY <2>3, <2>5, BranchLater
  <2>7. Fine(two, one.n, Exits(branch))
    BY <2>5, <2>6, PortTerminals
  <2> HIDE DEF two
  <2>8. Fine(Cat(g, Cat(one, Placing(g.n, two))), n, Exits(branch))
    BY <2>1, <2>4, <2>7, TwoTries
  <2> QED
    BY <2>2, <2>8, Zenon
<1> QED
  BY <1>1, <1>2

(* IPv4 and, failing that, IPv6. *)
LEMMA PortFine ==
  ASSUME NEW n \in Nat, NEW branch, BranchOK(branch, n), NEW cx, NEW p, NEW q, NEW lo, NEW hi,
         p.offset \in Offset
  PROVE  /\ Fine(compile_port(cx, n, p, lo, hi, branch), n, Exits(branch))
         /\ Fine(compile_port_pair(cx, n, p, q, lo, hi, branch), n, Exits(branch))
<1> DEFINE num == port_proto_num(p.proto)
           to == Branch(branch.on_true, n)
<1>1. n + 1 \in Nat /\ n <= n + 1 /\ BranchOK(to, n + 1)
  BY BranchLater
<1>2. ASSUME NEW v4, Fine(v4, n + 1, Exits(to)) PROVE v4.n \in Nat /\ BranchOK(branch, v4.n)
  <2>1. v4.n \in Nat /\ n <= v4.n
    BY <1>2 DEF Fine
  <2> QED
    BY <2>1, BranchLater
<1> HIDE DEF num
<1>3. Fine(compile_port(cx, n, p, lo, hi, branch), n, Exits(branch))
  <2> DEFINE v4 == compile_port4(cx, n + 1, num, p.dir, lo, hi, p.offset, to)
             v6 == compile_port6(cx, v4.n, num, p.dir, lo, hi, p.offset, branch)
  <2>1. Fine(v4, n + 1, Exits(to))
    BY <1>1, PortOfVersion
  <2>2. compile_port(cx, n, p, lo, hi, branch) = Cat(v4, Placing(n, v6))
    BY Zenon DEF compile_port, num
  <2> HIDE DEF v4
  <2>3. Fine(v6, v4.n, Exits(branch))
    BY <1>2, <2>1, PortOfVersion
  <2> HIDE DEF v6
  <2>4. Fine(Cat(v4, Placing(n, v6)), n, Exits(branch))
    BY <2>1, <2>3, FineOrElse
  <2> QED
    BY <2>2, <2>4, Zenon
<1>4. Fine(compile_port_pair(cx, n, p, q, lo, hi, branch), n, Exits(branch))
  <2> DEFINE v4 == compile_port4_pair(cx, n + 1, num, p.dir, q.dir, lo, hi, p.offset, to)
             v6 == compile_port6_pair(cx, v4.n, num, p.dir, q.dir, lo, hi, p.offset, branch)
  <2>1. Fine(v4, n + 1, Exits(to))
    BY <1>1, PortPairOfVersion
  <2>2. compile_port_pair(cx, n, p, q, lo, hi, branch) = Cat(v4, Placing(n, v6))
    BY Zenon DEF compile_port_pair, num
  <2> HIDE DEF v4
  <2>3. Fine(v6, v4.n, Exits(branch))
    BY <1>2, <2>1, PortPairOfVersion
  <2> HIDE DEF v6
  <2>4. Fine(Cat(v4, Placing(n, v6)), n, Exits(branch))
    BY <2>1, <2>3, FineOrElse
  <2> QED
    BY <2>2, <2>4, Zenon
<1> QED
  BY <1>3, <1>4

-----------------------------------------------------------------------------
(* Link-layer primitives. *)

(* The two halves of a MAC address are words. *)
LEMMA MacWords ==
  ASSUME NEW mac \in [1..6 -> Byte]
  PROVE  U32(mac[1], mac[2], mac[3], mac[4]) \in Word /\ U16(mac[5], mac[6]) \in Word
<1>1. \A i \in 1..6 : mac[i] \subseteq 0..7
  BY DEF Byte
<1>2. ASSUME NEW b, b \subseteq 0..7, NEW m \in {8, 16, 24} PROVE Up(b, m) \subseteq 0..31
  <2> SUFFICES ASSUME NEW x \in Up(b, m) PROVE x \in 0..31
    OBVIOUS
  <2>1. PICK i \in b : x = i + m
    BY DEF Up
  <2>2. i \in 0..7
    BY <1>2
  <2> QED
    BY <1>2, <2>1, <2>2
<1>3. /\ mac[1] \subseteq 0..7 /\ mac[2] \subseteq 0..7 /\ mac[3] \subseteq 0..7
      /\ mac[4] \subseteq 0..7 /\ mac[5] \subseteq 0..7 /\ mac[6] \subseteq 0..7
  BY <1>1
<1>4. /\ Up(mac[1], 24) \subseteq 0..31 /\ Up(mac[2], 16) \subseteq 0..31
      /\ Up(mac[3], 8) \subseteq 0..31 /\ Up(mac[5], 8) \subseteq 0..31
  BY <1>2, <1>3
<1>5. mac[4] \subseteq 0..31 /\ mac[6] \subseteq 0..31
  BY <1>3
<1> QED
  BY <1>4, <1>5 DEF U32, U16, Word

(* A MAC address is compared in two parts, the label of the second between *)
(* them.                                                                   *)
LEMMA MacEq ==
  ASSUME NEW n \in Nat, NEW branch, BranchOK(branch, n), NEW field_offset,
         NEW mac \in [1..6 -> Byte], NEW offset \in Offset
  PROVE  Fine(emit_mac_eq(n, field_offset, mac, offset, branch), n, Exits(branch))
<1> DEFINE X == Exits(branch)
           t == branch.on_true
           f == branch.on_false
           load1 == LdwAbs(Bits(field_offset), offset)
           jump1 == Jeq(U32(mac[1], mac[2], mac[3], mac[4]), n, f, offset)
           load2 == LdhAbs(Bits(field_offset + 4), offset)
           jump2 == Jeq(U16(mac[5], mac[6]), t, f, offset)
<1>1. t \in Nat /\ f \in Nat /\ t \in X /\ f \in X /\ n \notin X
  BY BranchLater DEF Exits
<1>2. IsPlain(load1) /\ IsPlain(load2)
  BY BitsWord, PlainEntries
<1>3. IsJump(jump1, n, f) /\ IsJump(jump2, t, f)
  BY <1>1, MacWords, CondEntries
<1>4. emit_mac_eq(n, field_offset, mac, offset, branch)
        = Block(<<load1, jump1, Mark(n), load2, jump2>>, n + 1)
  BY Zenon DEF emit_mac_eq
<1> HIDE DEF load1, jump1, load2, jump2, X, t, f
<1>5. Sound(<<load2>>, {}, X) /\ Sound(<<jump2>>, {}, X)
  BY <1>1, <1>2, <1>3, SoundPlain, SoundJump
<1>6. Sound(<<load2, jump2>>, {}, X)
  BY <1>5, SoundPlainCat, Unroll2
<1>7. Sound(<<Mark(n)>> \o <<load2, jump2>>, {n} \cup {}, X)
  BY <1>1, <1>6, SoundMark
<1>8. {n} \cup {} = {n}
  OBVIOUS
<1>9. Sound(<<Mark(n), load2, jump2>>, {n}, X)
  BY <1>7, <1>8, Unroll3, Zenon
<1>10. jump1 \in Entries /\ Places(jump1) = {} /\ Refs(jump1) \subseteq X \cup {n}
  BY <1>1, <1>3 DEF IsJump
<1>11. load1 \in Entries /\ Places(load1) = {} /\ Refs(load1) \subseteq X \cup {n}
  BY <1>2 DEF IsPlain
<1>12. Sound(<<jump1>> \o <<Mark(n), load2, jump2>>, {n}, X)
  BY <1>9, <1>10, SoundBefore
<1>13. Sound(<<jump1, Mark(n), load2, jump2>>, {n}, X)
  BY <1>12, Unroll4, Zenon
<1>14. Sound(<<load1>> \o <<jump1, Mark(n), load2, jump2>>, {n}, X)
  BY <1>11, <1>13, SoundBefore
<1>15. Sound(<<load1, jump1, Mark(n), load2, jump2>>, {n}, X)
  BY <1>14, Unroll5, Zenon
<1>16. Fine(Block(<<load1, jump1, Mark(n), load2, jump2>>, n + 1), n, X)
  BY <1>15, FineBlock
<1> QED
  BY <1>4, <1>16, Zenon DEF X

(* `ether host`: one address, or the destination and, failing that, the    *)
(* source.                                                                 *)
LEMMA EtherHost ==
  ASSUME NEW n \in Nat, NEW branch, BranchOK(branch, n), NEW mac \in [1..6 -> Byte],
         NEW dir \in Option(DirTag), NEW offset \in Offset
  PROVE  Fine(compile_ether_host(n, mac, dir, offset, branch), n, Exits(branch))
<1> DEFINE to == Branch(branch.on_true, n)
           one == emit_mac_eq(n + 1, ETH_DST_MAC_OFFSET, mac, offset, to)
           two == emit_mac_eq(one.n, ETH_SRC_MAC_OFFSET, mac, offset, branch)
           src == emit_mac_eq(n, ETH_SRC_MAC_OFFSET, mac, offset, branch)
           dst == emit_mac_eq(n, ETH_DST_MAC_OFFSET, mac, offset, branch)
<1>1. n + 1 \in Nat /\ BranchOK(to, n + 1)
  BY BranchLater
<1>2. Fine(one, n + 1, Exits(to)) /\ Fine(src, n, Exits(branch)) /\ Fine(dst, n, Exits(branch))
  BY <1>1, MacEq
<1>3. dir = {"Src"} \/ dir = {"Dst"} \/ dir = {}
  BY DEF Option, DirTag
<1>4. {"Src"} # {"Dst"} /\ {"Src"} # {} /\ {"Dst"} # {}
  OBVIOUS
<1>5. /\ dir = {"Src"} => compile_ether_host(n, mac, dir, offset, branch) = src
      /\ dir = {"Dst"} => compile_ether_host(n, mac, dir, offset, branch) = dst
      /\ dir = {} => compile_ether_host(n, mac, dir, offset, branch) = Cat(one, Placing(n, two))
  BY <1>4, Zenon DEF compile_ether_host
<1> HIDE DEF one, src, dst
<1>6. one.n \in Nat /\ n <= one.n
  BY <1>1, <1>2 DEF Fine
<1>7. BranchOK(branch, one.n)
  BY <1>6, BranchLater
<1>8. Fine(two, one.n, Exits(branch))
  BY <1>6, <1>7, MacEq
<1> HIDE DEF two
<1>9. Fine(Cat(one, Placing(n, two)), n, Exits(branch))
  BY <1>2, <1>8, FineOrElse
<1> QED
  BY <1>2, <1>3, <1>5, <1>9, Zenon

(* A load and the decision, in one block. *)
LEMMA Decide ==
  ASSUME NEW n \in Nat, NEW branch, BranchOK(branch, n), NEW a, NEW j, IsPlain(a),
         IsJump(j, branch.on_true, branch.on_false)
  PROVE  Fine(Block(<<a, j>>, n), n, Exits(branch))
<1>1. Sound(<<a>>, {}, Exits(branch)) /\ Sound(<<j>>, {}, Exits(branch))
  BY SoundPlain, SoundJump DEF Exits
<1>2. Sound(<<a, j>>, {}, Exits(branch))
  BY <1>1, SoundPlainCat, Unroll2
<1> QED
  BY <1>2, FineBlock

(* Every link-layer primitive that compile_ether goes ahead with: it then  *)
(* has an ethertype field, so `expect` does not panic.                     *)
LEMMA EtherFine ==
  ASSUME NEW n \in Nat, NEW branch, BranchOK(branch, n), NEW lt \in LinkTypes,
         EtherFits(Ctx(lt)), NEW e, IsEtherPrimitive(e)
  PROVE  Fine(compile_ether(Ctx(lt), n, e, branch), n, Exits(branch))
<1> DEFINE cx == Ctx(lt)
           X == Exits(branch)
<1>1. lt = "Ethernet"
  BY DEF EtherFits, Ctx
<1>2. cx.eth_field = {12}
  <2>1. l3_offset_info(lt) = [ip_base |-> 14, ethertype_offset |-> {12}]
    BY <1>1 DEF l3_offset_info
  <2> QED
    BY <2>1 DEF Ctx
<1> HIDE DEF cx
<1>3. cx.eth_field # {} /\ e.offset \in Offset
  BY <1>2 DEF IsEtherPrimitive
<1>4. branch.on_true \in Nat /\ branch.on_false \in Nat
  BY BranchLater
<1>5. CASE e.kind = "Host" /\ e.mac \in [1..6 -> Byte] /\ e.dir \in Option(DirTag)
  <2>1. Fine(compile_ether_host(n, e.mac, e.dir, e.offset, branch), n, X)
    BY <1>3, <1>5, EtherHost
  <2>2. compile_ether(cx, n, e, branch) = compile_ether_host(n, e.mac, e.dir, e.offset, branch)
    BY <1>5 DEF compile_ether
  <2> QED
    BY <2>1, <2>2, Zenon DEF cx
<1>6. CASE e.kind = "Proto"
  <2> DEFINE load == LdhAbs(Bits(The(cx.eth_field)), e.offset)
             jump == Jeq(Bits(e.ethertype), branch.on_true, branch.on_false, e.offset)
  <2>1. IsPlain(load) /\ IsJump(jump, branch.on_true, branch.on_false)
    BY <1>3, <1>4, BitsWord, PlainEntries, CondEntries
  <2>2. compile_ether_proto(cx, n, e.ethertype, e.offset, branch) = Block(<<load, jump>>, n)
    BY <1>3, Zenon DEF compile_ether_proto
  <2>3. compile_ether(cx, n, e, branch) = compile_ether_proto(cx, n, e.ethertype, e.offset, branch)
    BY <1>6 DEF compile_ether
  <2> HIDE DEF load, jump
  <2>4. Fine(Block(<<load, jump>>, n), n, X)
    BY <2>1, Decide
  <2> QED
    BY <2>2, <2>3, <2>4, Zenon DEF cx
<1>7. CASE e.kind = "Broadcast"
  <2>1. ETH_MAC_BROADCAST \in [1..6 -> Byte]
    BY DEF ETH_MAC_BROADCAST, Byte
  <2>2. Fine(emit_mac_eq(n, ETH_DST_MAC_OFFSET, ETH_MAC_BROADCAST, e.offset, branch), n, X)
    BY <1>3, <2>1, MacEq
  <2>3. compile_ether(cx, n, e, branch)
          = emit_mac_eq(n, ETH_DST_MAC_OFFSET, ETH_MAC_BROADCAST, e.offset, branch)
    BY <1>7 DEF compile_ether
  <2> QED
    BY <2>2, <2>3, Zenon DEF cx
<1>8. CASE e.kind = "Multicast"
  <2> DEFINE load == LdbAbs(Bits(ETH_DST_MAC_OFFSET), e.offset)
             jump == Jset({0}, branch.on_true, branch.on_false, e.offset)
  <2>1. {0} \in Word
    BY DEF Word
  <2>2. IsPlain(load) /\ IsJump(jump, branch.on_true, branch.on_false)
    BY <1>3, <1>4, <2>1, BitsWord, PlainEntries, CondEntries
  <2>3. compile_ether_multicast(n, e.offset, branch) = Block(<<load, jump>>, n)
    BY Zenon DEF compile_ether_multicast
  <2>4. compile_ether(cx, n, e, branch) = compile_ether_multicast(n, e.offset, branch)
    BY <1>8 DEF compile_ether
  <2> HIDE DEF load, jump
  <2>5. Fine(Block(<<load, jump>>, n), n, X)
    BY <2>2, Decide
  <2> QED
    BY <2>3, <2>4, <2>5, Zenon DEF cx
<1> QED
  BY <1>5, <1>6, <1>7, <1>8 DEF IsEtherPrimitive, cx

-----------------------------------------------------------------------------
(* Addresses. *)

(* IPv6 addresses, in one direction or in two. *)
LEMMA Addr6Fine ==
  ASSUME NEW n \in Nat, NEW branch, BranchOK(branch, n), NEW cx, NEW p, p.offset \in Offset,
         NEW second, NEW addr, NEW prefix \in Option(0..128)
  PROVE  Fine(compile_addr6(cx, n, p, second, addr, prefix, branch), n, Exits(branch))
<1> DEFINE X == Exits(branch)
           g == emit_ethertype_and_proto_gates(cx, n, addr6_gates.ethertype, IP6_NEXTHDR_OFFSET,
                                               {}, p.offset, branch.on_false)
           bits == IF prefix = {} THEN 128 ELSE The(prefix)
           to == Branch(branch.on_true, g.n)
           alone == emit_addr6_terminal(cx, g.n, addr6_gates, p.dir, addr, bits, p.offset, branch)
           one == emit_addr6_terminal(cx, g.n + 1, addr6_gates, p.dir, addr, bits, p.offset, to)
           two == emit_addr6_terminal(cx, one.n, addr6_gates, The(second), addr, bits, p.offset, branch)
<1>1. X \in SUBSET (0..(n - 1)) /\ branch.on_false \in X
  BY BranchLater DEF Exits
<1>2. addr6_gates.ethertype \in {ETH_TYPE_IP, ETH_TYPE_IPV6}
  BY DEF addr6_gates, AddrGates
<1>3. Fine(g, n, X)
  BY <1>1, <1>2, ProtoGates
<1>4. bits \in 0..128
  <2>1. CASE prefix = {}
    BY <2>1
  <2>2. CASE prefix # {}
    <3>1. The(prefix) \in prefix
      BY <2>2 DEF The
    <3> QED
      BY <2>2, <3>1 DEF Option
  <2> QED
    BY <2>1, <2>2
<1>5. compile_addr6(cx, n, p, second, addr, prefix, branch)
        = IF second = {} THEN Cat(g, alone) ELSE Cat(g, Cat(one, Placing(g.n, two)))
  BY Zenon DEF compile_addr6
<1> HIDE DEF g, bits
<1>6. /\ g.n \in Nat /\ g.n + 1 \in Nat /\ BranchOK(branch, g.n) /\ BranchOK(to, g.n + 1)
      /\ n <= g.n
  BY <1>3, Behind
<1>7. Fine(alone, g.n, X)
  BY <1>4, <1>6, Addr6Terminal
<1>8. Fine(one, g.n + 1, Exits(to))
  BY <1>4, <1>6, Addr6Terminal
<1> HIDE DEF alone, one
<1>9. one.n \in Nat /\ g.n <= one.n
  BY <1>6, <1>8 DEF Fine
<1>10. BranchOK(branch, one.n)
  BY <1>6, <1>9, BranchLater
<1>11. Fine(two, one.n, X)
  BY <1>4, <1>9, <1>10, Addr6Terminal
<1> HIDE DEF two
<1>12. Fine(Cat(g, Cat(one, Placing(g.n, two))), n, X)
  BY <1>3, <1>8, <1>11, TwoTries
<1>13. Fine(Cat(g, alone), n, X)
  <2> HIDE DEF X
  <2> QED
    BY <1>1, <1>3, <1>7, FineCat
<1> QED
  BY <1>5, <1>12, <1>13, Zenon DEF X

(* The protocols of IPv4 addresses, and the ethertypes they are found      *)
(* under.                                                                  *)
Proto4 == CompiledProto \ {"Ip6", "Sctp"}

(* The gate on the ethertype of an address that compile_addr goes ahead    *)
(* with is one that emit_l3_gate has code for.                             *)
LEMMA AddrGate ==
  ASSUME NEW proto \in Proto4, NEW cx, ensure_ethertype_available(cx, addr_gates(proto))
  PROVE  cx.eth_field # {} \/ addr_gates(proto).ethertype \in {ETH_TYPE_IP, ETH_TYPE_IPV6}
<1>1. proto \in {"Ip", "Tcp", "Udp", "Icmp", "Arp", "Rarp"}
  BY DEF Proto4, CompiledProto, ProtoTag
<1>2. /\ \A e, q, a, b : AddrGates(e, q, a, b).ethertype = e
  BY DEF AddrGates
<1>3. addr_gates(proto).ethertype \in {ETH_TYPE_IP, ETH_TYPE_ARP, ETH_TYPE_RARP}
  <2>1. CASE proto = "Ip"
    <3>1. addr_gates(proto) = AddrGates(ETH_TYPE_IP, {}, IP_SRC_OFFSET, IP_DST_OFFSET)
      BY <2>1 DEF addr_gates
    <3> QED
      BY <1>2, <3>1
  <2>2. CASE proto = "Tcp"
    <3>1. addr_gates(proto) = AddrGates(ETH_TYPE_IP, {IP_PROTO_TCP}, IP_SRC_OFFSET, IP_DST_OFFSET)
      BY <2>2 DEF addr_gates
    <3> QED
      BY <1>2, <3>1
  <2>3. CASE proto = "Udp"
    <3>1. addr_gates(proto) = AddrGates(ETH_TYPE_IP, {IP_PROTO_UDP}, IP_SRC_OFFSET, IP_DST_OFFSET)
      BY <2>3 DEF addr_gates
    <3> QED
      BY <1>2, <3>1
  <2>4. CASE proto = "Icmp"
    <3>1. addr_gates(proto) = AddrGates(ETH_TYPE_IP, {IP_PROTO_ICMP}, IP_SRC_OFFSET, IP_DST_OFFSET)
      BY <2>4 DEF addr_gates
    <3> QED
      BY <1>2, <3>1
  <2>5. CASE proto = "Arp"
    <3>1. addr_gates(proto)
            = AddrGates(ETH_TYPE_ARP, {}, ARP_SENDER_PA_OFFSET, ARP_TARGET_PA_OFFSET)
      BY <2>5 DEF addr_gates
    <3> QED
      BY <1>2, <3>1
  <2>6. CASE proto = "Rarp"
    <3>1. addr_gates(proto)
            = AddrGates(ETH_TYPE_RARP, {}, ARP_SENDER_PA_OFFSET, ARP_TARGET_PA_OFFSET)
      BY <2>6 DEF addr_gates
    <3> QED
      BY <1>2, <3>1
  <2> QED
    BY <1>1, <2>1, <2>2, <2>3, <2>4, <2>5, <2>6
<1> QED
  BY <1>3 DEF ensure_ethertype_available

(* The gates of an IPv4 address. *)
LEMMA AddrPrologue ==
  ASSUME NEW n \in Nat, NEW branch, BranchOK(branch, n), NEW cx, NEW p, p.offset \in Offset,
         p.proto \in Proto4, ensure_ethertype_available(cx, addr_gates(p.proto))
  PROVE  Fine(addr_prologue(cx, n, p, addr_gates(p.proto), branch), n, Exits(branch))
<1> DEFINE gates == addr_gates(p.proto)
<1>1. cx.eth_field # {} \/ gates.ethertype \in {ETH_TYPE_IP, ETH_TYPE_IPV6}
  BY AddrGate
<1>2. Exits(branch) \in SUBSET (0..(n - 1)) /\ branch.on_false \in Exits(branch)
  BY BranchLater DEF Exits
<1> HIDE DEF gates
<1>3. Fine(addr_prologue(cx, n, p, gates, branch), n, Exits(branch))
  BY <1>1, <1>2, ProtoGates DEF addr_prologue
<1> QED
  BY <1>3 DEF gates

(* The mask of a prefix and the masked address are words. *)
LEMMA MaskAndTarget ==
  ASSUME NEW prefix, NEW bits \in Word
  PROVE  MaskOf(prefix) \in SUBSET Word /\ TargetOf(bits, MaskOf(prefix)) \in Word
<1>1. MaskOf(prefix) \in SUBSET Word
  BY NetmaskWord DEF MaskOf
<1> QED
  BY <1>1 DEF TargetOf, Word

(* IPv4 addresses in one direction. *)
LEMMA Addr4One ==
  ASSUME NEW n \in Nat, NEW branch, BranchOK(branch, n), NEW cx, NEW p, p.offset \in Offset,
         p.proto \in Proto4, ensure_ethertype_available(cx, addr_gates(p.proto)),
         NEW addr, addr.version # 6, addr.bits \in Word, NEW prefix
  PROVE  Fine(compile_addr(cx, n, p, addr, prefix, branch), n, Exits(branch))
<1> DEFINE X == Exits(branch)
           gates == addr_gates(p.proto)
           mask == MaskOf(prefix)
           target == TargetOf(addr.bits, mask)
           g == addr_prologue(cx, n, p, gates, branch)
           one == emit_addr_terminal(cx, g.n, gates, p.dir, mask, target, p.offset, branch)
<1>1. Fine(g, n, X)
  BY AddrPrologue
<1>2. mask \in SUBSET Word /\ target \in Word
  BY MaskAndTarget
<1>3. compile_addr(cx, n, p, addr, prefix, branch) = Cat(g, one)
  BY Zenon DEF compile_addr
<1> HIDE DEF g, mask, target, gates
<1>4. g.n \in Nat /\ BranchOK(branch, g.n)
  BY <1>1, Behind
<1>5. Fine(one, g.n, X)
  BY <1>2, <1>4, AddrTerminal
<1>6. X \in SUBSET (0..(n - 1))
  BY BranchLater
<1> HIDE DEF one, X
<1>7. Fine(Cat(g, one), n, X)
  BY <1>1, <1>5, <1>6, FineCat
<1> QED
  BY <1>3, <1>7, Zenon DEF X

(* IPv4 addresses in two directions behind the same gates. *)
LEMMA Addr4Two ==
  ASSUME NEW n \in Nat, NEW branch, BranchOK(branch, n), NEW cx, NEW p, p.offset \in Offset,
         p.proto \in Proto4, ensure_ethertype_available(cx, addr_gates(p.proto)), NEW q,
         NEW addr, addr.version # 6, addr.bits \in Word, NEW prefix
  PROVE  Fine(compile_addr_pair(cx, n, p, q, addr, prefix, branch), n, Exits(branch))
<1> DEFINE X == Exits(branch)
           gates == addr_gates(p.proto)
           mask == MaskOf(prefix)
           target == TargetOf(addr.bits, mask)
           g == addr_prologue(cx, n, p, gates, branch)
           to == Branch(branch.on_true, g.n)
           one == emit_addr_terminal(cx, g.n + 1, gates, p.dir, mask, target, p.offset, to)
           two == emit_addr_terminal(cx, one.n, gates, q.dir, mask, target, p.offset, branch)
<1>1. Fine(g, n, X)
  BY AddrPrologue
<1>2. mask \in SUBSET Word /\ target \in Word
  BY MaskAndTarget
<1>3. compile_addr_pair(cx, n, p, q, addr, prefix, branch) = Cat(g, Cat(one, Placing(g.n, two)))
  BY Zenon DEF compile_addr_pair
<1> HIDE DEF g, mask, target, gates
<1>4. g.n \in Nat /\ g.n + 1 \in Nat /\ BranchOK(branch, g.n) /\ BranchOK(to, g.n + 1)
  BY <1>1, Behind
<1>5. Fine(one, g.n + 1, Exits(to))
  BY <1>2, <1>4, AddrTerminal
<1> HIDE DEF one
<1>6. one.n \in Nat /\ g.n <= one.n
  BY <1>4, <1>5 DEF Fine
<1>7. BranchOK(branch, one.n)
  BY <1>4, <1>6, BranchLater
<1>8. Fine(two, one.n, X)
  BY <1>2, <1>6, <1>7, AddrTerminal
<1> HIDE DEF two
<1>9. Fine(Cat(g, Cat(one, Placing(g.n, two))), n, X)
  BY <1>1, <1>5, <1>8, TwoTries
<1> QED
  BY <1>3, <1>9, Zenon DEF X

(* The prefix of an IPv6 address is within its width. *)
LEMMA Prefix6 ==
  ASSUME NEW ty, IsPrimType(ty), ty.kind \in {"Host", "Net"}, ty.addr.version = 6
  PROVE  PrefixOf(ty) \in Option(0..128)
<1>1. ty.kind # "Port" /\ ty.kind # "PortRange"
  OBVIOUS
<1>2. CASE ty.kind = "Host"
  <2>1. PrefixOf(ty) = {}
    BY <1>2 DEF PrefixOf
  <2> QED
    BY <2>1 DEF Option
<1>3. CASE ty.kind = "Net"
  <2>1. PrefixOf(ty) = IF ty.prefix = {} THEN {full_prefix(ty.addr)} ELSE ty.prefix
    BY <1>3 DEF PrefixOf
  <2>2. full_prefix(ty.addr) = 128 /\ ty.prefix \in Option(0..128)
    BY <1>1, <1>3 DEF full_prefix, IsPrimType
  <2>3. {128} \in Option(0..128)
    BY DEF Option
  <2> QED
    BY <2>1, <2>2, <2>3, Zenon
<1> QED
  BY <1>2, <1>3

(* A primitive that compiles, in one direction or merged with its          *)
(* opposite, is a fine block: in particular the `unreachable!()` of        *)
(* emit_l3_gate is not reached.                                            *)
LEMMA PrimitiveFine ==
  ASSUME NEW n \in Nat, NEW branch, BranchOK(branch, n), NEW cx, NEW p, NEW q,
         IsCompiledPrimitive(p), PrimFits(cx, p)
  PROVE  /\ Fine(compile_primitive(cx, n, p, branch), n, Exits(branch))
         /\ Fine(compile_dir_pair(cx, n, p, q, branch), n, Exits(branch))
<1> DEFINE X == Exits(branch)
<1>1. p.offset \in Offset /\ p.proto \in CompiledProto /\ IsPrimType(p.ty)
  BY DEF IsCompiledPrimitive
<1>2. CASE p.ty.kind \in {"Host", "Net"}
  <2> DEFINE addr == p.ty.addr
             prefix == PrefixOf(p.ty)
  <2>1. /\ compile_primitive(cx, n, p, branch) = compile_addr(cx, n, p, addr, prefix, branch)
        /\ compile_dir_pair(cx, n, p, q, branch) = compile_addr_pair(cx, n, p, q, addr, prefix, branch)
    BY <1>2, Zenon DEF compile_primitive, compile_dir_pair
  <2>2. AddrFits(cx, p.proto, addr)
    BY <1>2, Zenon DEF PrimFits
  <2>3. IsAddr(addr)
    BY <1>1, <1>2 DEF IsPrimType
  <2>4. CASE addr.version = 6
    <3>1. prefix \in Option(0..128)
      BY <1>1, <1>2, <2>4, Prefix6
    <3>2. /\ compile_addr(cx, n, p, addr, prefix, branch)
               = compile_addr6(cx, n, p, {}, addr.bits, prefix, branch)
          /\ compile_addr_pair(cx, n, p, q, addr, prefix, branch)
               = compile_addr6(cx, n, p, {q.dir}, addr.bits, prefix, branch)
      BY <2>4, Zenon DEF compile_addr, compile_addr_pair
    <3> HIDE DEF addr, prefix
    <3>3. /\ Fine(compile_addr6(cx, n, p, {}, addr.bits, prefix, branch), n, X)
          /\ Fine(compile_addr6(cx, n, p, {q.dir}, addr.bits, prefix, branch), n, X)
      BY <1>1, <3>1, Addr6Fine
    <3> QED
      BY <2>1, <3>2, <3>3, Zenon
  <2>5. CASE addr.version # 6
    <3>1. addr.bits \in Word
      BY <2>3, <2>5 DEF IsAddr, Word
    <3>2. p.proto \in Proto4 /\ ensure_ethertype_available(cx, addr_gates(p.proto))
      BY <1>1, <2>2, <2>5 DEF AddrFits, Proto4
    <3> HIDE DEF addr, prefix
    <3>3. /\ Fine(compile_addr(cx, n, p, addr, prefix, branch), n, X)
          /\ Fine(compile_addr_pair(cx, n, p, q, addr, prefix, branch), n, X)
      BY <1>1, <2>5, <3>1, <3>2, Addr4One, Addr4Two
    <3> QED
      BY <2>1, <3>3, Zenon
  <2> QED
    BY <2>4, <2>5
<1>3. CASE p.ty.kind \notin {"Host", "Net"}
  <2>1. /\ compile_primitive(cx, n, p, branch) = compile_port(cx, n, p, p.ty.lo, p.ty.hi, branch)
        /\ compile_dir_pair(cx, n, p, q, branch)
             = compile_port_pair(cx, n, p, q, p.ty.lo, p.ty.hi, branch)
    BY <1>3, Zenon DEF compile_primitive, compile_dir_pair
  <2>2. /\ Fine(compile_port(cx, n, p, p.ty.lo, p.ty.hi, branch), n, X)
        /\ Fine(compile_port_pair(cx, n, p, q, p.ty.lo, p.ty.hi, branch), n, X)
    BY <1>1, PortFine
  <2> QED
    BY <2>1, <2>2, Zenon
<1> QED
  BY <1>2, <1>3

-----------------------------------------------------------------------------
(* The pending calls and placements. *)

(* What compile_expr still has to do: calls and labels to place. *)
Items ==
  [do : {"expr"}, e : Exprs, branch : [on_true : Nat, on_false : Nat]]
    \cup [do : {"place"}, label : Nat]

(* The labels that are still to be placed. *)
Awaited(items) ==
  {items[i].label : i \in {j \in DOMAIN items : items[j].do = "place"}}

(* A pending call may branch to the two return blocks and to the labels    *)
(* that are placed after it, and no label is going to be placed twice.     *)
TodoOK(items, n) ==
  /\ items \in Seq(Items)
  /\ \A i \in DOMAIN items : items[i].do = "place" => items[i].label \in 2..(n - 1)
  /\ \A i, j \in DOMAIN items :
       items[i].do = "place" /\ items[j].do = "place" /\ items[i].label = items[j].label => i = j
  /\ \A i \in DOMAIN items : items[i].do = "expr" =>
       \A l \in Exits(items[i].branch) :
          \/ l \in {accept, reject}
          \/ \E j \in DOMAIN items : i < j /\ items[j].do = "place" /\ items[j].label = l

(* The labels that are not placed yet: until the return blocks are, theirs *)
(* too.                                                                    *)
Open == IF status = "ok" THEN {} ELSE {accept, reject} \cup Awaited(todo)

(* The inductive invariant: the stream places each label that is not open  *)
(* exactly once and jumps back to none of them.                            *)
CgInv ==
  /\ expr \in Exprs /\ link_type \in LinkTypes /\ snaplen \in Snaplens
  /\ num_labels \in Nat /\ num_labels >= 2
  /\ status \in {"running", "ok", "failed"}
  /\ status = "failed" <=> error # {}
  /\ TodoOK(todo, num_labels)
  /\ Sound(stream, Labels \ Open, Open)

(* Where the i-th item may branch to. *)
Onward(items, i, l) ==
  \/ l \in {accept, reject}
  \/ \E j \in DOMAIN items : i < j /\ items[j].do = "place" /\ items[j].label = l

(* A pending call does. *)
LEMMA CallExits ==
  ASSUME NEW items, NEW n, TodoOK(items, n), NEW i \in DOMAIN items, items[i].do = "expr",
         NEW l, l \in Exits(items[i].branch)
  PROVE  Onward(items, i, l)
<1>1. \A k \in DOMAIN items : items[k].do = "expr" =>
         \A x \in Exits(items[k].branch) : Onward(items, k, x)
  BY Zenon DEF TodoOK, Onward
<1> QED
  BY <1>1, Zenon

(* Two kinds of items. *)
LEMMA ItemKinds ==
  ASSUME NEW item \in Items
  PROVE  \/ /\ item.do = "expr" /\ item.e \in Exprs
            /\ item.branch.on_true \in Nat /\ item.branch.on_false \in Nat
         \/ item.do = "place" /\ item.label \in Nat
  BY DEF Items

(* Call and PlaceLater make such items. *)
LEMMA MakeItems ==
  /\ \A e \in Exprs : \A t, f \in Nat : Call(e, Branch(t, f)) \in Items
  /\ \A l \in Nat : PlaceLater(l) \in Items
  BY DEF Items, Call, Branch, PlaceLater

(* The items that are left when the first one has been dealt with. *)
LEMMA TodoTail ==
  ASSUME NEW items, NEW n \in Nat, TodoOK(items, n), items # <<>>
  PROVE  /\ Head(items) \in Items
         /\ TodoOK(Tail(items), n)
         /\ Head(items).do = "place" =>
              /\ Head(items).label \in 2..(n - 1)
              /\ Head(items).label \notin Awaited(Tail(items))
              /\ Awaited(items) = {Head(items).label} \cup Awaited(Tail(items))
         /\ Head(items).do = "expr" =>
              /\ Exits(Head(items).branch) \subseteq {accept, reject} \cup Awaited(Tail(items))
              /\ Awaited(items) = Awaited(Tail(items))
<1> DEFINE rest == Tail(items)
           m == Len(rest)
<1>1. items \in Seq(Items)
  BY DEF TodoOK
<1> HIDE DEF Items
<1>2. /\ rest \in Seq(Items) /\ m \in Nat /\ DOMAIN rest = 1..m /\ DOMAIN items = 1..(m + 1)
      /\ \A i \in 1..m : rest[i] = items[i + 1]
      /\ Head(items) = items[1] /\ Head(items) \in Items
  BY <1>1
<1> HIDE DEF rest, m
<1>3. \A i \in 1..m : i + 1 \in 1..(m + 1)
  BY <1>2
<1>4. \A i \in 1..(m + 1) : i = 1 \/ (i - 1 \in 1..m /\ i = (i - 1) + 1 /\ rest[i - 1] = items[i])
  BY <1>2
<1>5. 1 \in DOMAIN items
  BY <1>2
<1>6. ASSUME NEW i \in DOMAIN items, NEW j \in DOMAIN items, items[i].do = "place",
              items[j].do = "place", items[i].label = items[j].label
       PROVE  i = j
  BY <1>6 DEF TodoOK
<1>7. ASSUME NEW i \in DOMAIN items, items[i].do = "expr", NEW l \in Exits(items[i].branch)
       PROVE  Onward(items, i, l)
  BY <1>7, CallExits
<1>8. TodoOK(rest, n)
  <2>1. \A i \in DOMAIN rest : rest[i].do = "place" => rest[i].label \in 2..(n - 1)
    <3>1. \A i \in DOMAIN items : items[i].do = "place" => items[i].label \in 2..(n - 1)
      BY Zenon DEF TodoOK
    <3>2. \A i \in DOMAIN rest : i + 1 \in DOMAIN items /\ rest[i] = items[i + 1]
      BY <1>2, <1>3
    <3> QED
      BY <3>1, <3>2, Zenon
  <2>2. ASSUME NEW i \in DOMAIN rest, NEW j \in DOMAIN rest, rest[i].do = "place",
               rest[j].do = "place", rest[i].label = rest[j].label
        PROVE  i = j
    <3>1. i + 1 = j + 1
      BY <1>2, <1>3, <1>6, <2>2
    <3> QED
      BY <1>2, <3>1
  <2>3. ASSUME NEW i \in DOMAIN rest, rest[i].do = "expr", NEW l \in Exits(rest[i].branch)
        PROVE  \/ l \in {accept, reject}
               \/ \E j \in DOMAIN rest : i < j /\ rest[j].do = "place" /\ rest[j].label = l
    <3>1. \/ l \in {accept, reject}
          \/ \E j \in DOMAIN items : i + 1 < j /\ items[j].do = "place" /\ items[j].label = l
      <4>1. i + 1 \in DOMAIN items /\ items[i + 1] = rest[i]
        BY <1>2, <1>3, <2>3
      <4>2. items[i + 1].do = "expr" /\ l \in Exits(items[i + 1].branch)
        BY <4>1, <2>3, Zenon
      <4> QED
        BY <4>1, <4>2, <1>7, Zenon DEF Onward
    <3>2. ASSUME NEW j \in DOMAIN items, i + 1 < j, items[j].do = "place", items[j].label = l
          PROVE  \E k \in DOMAIN rest : i < k /\ rest[k].do = "place" /\ rest[k].label = l
      <4>1. j - 1 \in DOMAIN rest /\ i < j - 1 /\ rest[j - 1] = items[j]
        BY <1>2, <1>4, <3>2
      <4> QED
        BY <3>2, <4>1
    <3> QED
      BY <3>1, <3>2
  <2>4. rest \in Seq(Items)
    BY <1>2
  <2> QED
    BY <2>1, <2>2, <2>3, <2>4 DEF TodoOK
<1>9. ASSUME NEW l
      PROVE  l \in Awaited(items) <=> (Head(items).do = "place" /\ l = Head(items).label)
                                        \/ l \in Awaited(rest)
  <2>1. ASSUME l \in Awaited(items)
        PROVE  (Head(items).do = "place" /\ l = Head(items).label) \/ l \in Awaited(rest)
    <3>1. PICK i \in 1..(m + 1) : items[i].do = "place" /\ items[i].label = l
      BY <1>2, <2>1 DEF Awaited
    <3>2. CASE i = 1
      BY <1>2, <3>1, <3>2
    <3>3. CASE i - 1 \in 1..m /\ rest[i - 1] = items[i]
      BY <1>2, <3>1, <3>3 DEF Awaited
    <3> QED
      BY <1>4, <3>2, <3>3
  <2>2. ASSUME l \in Awaited(rest) PROVE l \in Awaited(items)
    <3>1. PICK i \in 1..m : rest[i].do = "place" /\ rest[i].label = l
      BY <1>2, <2>2 DEF Awaited
    <3> QED
      BY <1>2, <1>3, <3>1 DEF Awaited
  <2>3. ASSUME Head(items).do = "place", l = Head(items).label PROVE l \in Awaited(items)
    BY <1>2, <1>5, <2>3 DEF Awaited
  <2> QED
    BY <2>1, <2>2, <2>3
<1>10. ASSUME Head(items).do = "place"
      PROVE  /\ Head(items).label \in 2..(n - 1)
             /\ Head(items).label \notin Awaited(rest)
             /\ Awaited(items) = {Head(items).label} \cup Awaited(rest)
  <2>1. Head(items).label \in 2..(n - 1)
    BY <1>2, <1>5, <1>10 DEF TodoOK
  <2>2. ASSUME Head(items).label \in Awaited(rest) PROVE FALSE
    <3>1. PICK i \in 1..m : rest[i].do = "place" /\ rest[i].label = Head(items).label
      BY <1>2, <2>2 DEF Awaited
    <3>2. i + 1 \in DOMAIN items /\ items[i + 1].do = "place" /\ items[i + 1].label = items[1].label
      BY <1>2, <1>3, <3>1
    <3>3. i + 1 = 1
      BY <1>2, <1>5, <1>10, <1>6, <3>2
    <3> QED
      BY <1>2, <3>3
  <2> QED
    BY <1>9, <1>10, <2>1, <2>2
<1>11. ASSUME Head(items).do = "expr"
      PROVE  /\ Exits(Head(items).branch) \subseteq {accept, reject} \cup Awaited(rest)
             /\ Awaited(items) = Awaited(rest)
  <2>1. ASSUME NEW l \in Exits(Head(items).branch)
        PROVE  l \in {accept, reject} \cup Awaited(rest)
    <3>1. \/ l \in {accept, reject}
          \/ \E j \in DOMAIN items : 1 < j /\ items[j].do = "place" /\ items[j].label = l
      <4>1. items[1].do = "expr" /\ l \in Exits(items[1].branch)
        BY <1>2, <1>11, <2>1, Zenon
      <4> QED
        BY <4>1, <1>5, <1>7, Zenon DEF Onward
    <3>2. ASSUME NEW j \in DOMAIN items, 1 < j, items[j].do = "place", items[j].label = l
          PROVE  l \in Awaited(rest)
      <4>1. j - 1 \in DOMAIN rest /\ rest[j - 1] = items[j]
        BY <1>2, <1>4, <3>2
      <4> QED
        BY <3>2, <4>1 DEF Awaited
    <3> QED
      BY <3>1, <3>2
  <2> QED
    BY <1>9, <1>11, <2>1
<1> QED
  BY <1>2, <1>8, <1>10, <1>11 DEF rest

(* The labels that are to be placed have been handed out. *)
LEMMA AwaitedRange ==
  ASSUME NEW items, NEW n \in Nat, TodoOK(items, n)
  PROVE  Awaited(items) \subseteq 2..(n - 1)
  BY DEF TodoOK, Awaited

(* A label more does no harm. *)
LEMMA TodoMore ==
  ASSUME NEW items, NEW n \in Nat, NEW m \in Nat, n <= m, TodoOK(items, n) PROVE TodoOK(items, m)
<1>1. \A i \in DOMAIN items : items[i].do = "place" => items[i].label \in 2..(m - 1)
  BY DEF TodoOK
<1> QED
  BY <1>1 DEF TodoOK

(* A call in front: it may branch to what is placed behind it.             *)
LEMMA TodoCall ==
  ASSUME NEW items, NEW n \in Nat, TodoOK(items, n), NEW e \in Exprs, NEW t \in Nat, NEW f \in Nat,
         {t, f} \subseteq {accept, reject} \cup Awaited(items)
  PROVE  /\ TodoOK(<<Call(e, Branch(t, f))>> \o items, n)
         /\ Awaited(<<Call(e, Branch(t, f))>> \o items) = Awaited(items)
<1> DEFINE call == Call(e, Branch(t, f))
           more == <<call>> \o items
           m == Len(items)
<1>1. call \in Items /\ call.do = "expr" /\ Exits(call.branch) = {t, f}
  BY MakeItems, BranchFields DEF Call
<1>2. items \in Seq(Items)
  BY DEF TodoOK
<1> HIDE DEF Items, call
<1>3. /\ m \in Nat /\ DOMAIN items = 1..m /\ more \in Seq(Items) /\ DOMAIN more = 1..(m + 1)
      /\ more[1] = call /\ \A i \in 1..m : more[i + 1] = items[i]
  BY <1>1, <1>2
<1> HIDE DEF more, m
<1>4. \A i \in DOMAIN more : i = 1 \/ (i - 1 \in DOMAIN items /\ more[i] = items[i - 1])
  BY <1>3
<1>5. \A i \in DOMAIN items : i + 1 \in DOMAIN more /\ more[i + 1] = items[i]
  BY <1>3
<1>6. Awaited(more) = Awaited(items)
  <2>1. ASSUME NEW l \in Awaited(more) PROVE l \in Awaited(items)
    <3>1. PICK i \in DOMAIN more : more[i].do = "place" /\ more[i].label = l
      BY DEF Awaited
    <3>2. i # 1
      BY <1>1, <1>3, <3>1
    <3> QED
      BY <1>4, <3>1, <3>2 DEF Awaited
  <2>2. ASSUME NEW l \in Awaited(items) PROVE l \in Awaited(more)
    <3>1. PICK i \in DOMAIN items : items[i].do = "place" /\ items[i].label = l
      BY DEF Awaited
    <3> QED
      BY <1>5, <3>1 DEF Awaited
  <2> QED
    BY <2>1, <2>2
<1>7. \A i \in DOMAIN more : more[i].do = "place" => more[i].label \in 2..(n - 1)
  BY <1>1, <1>3, <1>4 DEF TodoOK
<1>8. ASSUME NEW i \in DOMAIN more, NEW j \in DOMAIN more, more[i].do = "place",
             more[j].do = "place", more[i].label = more[j].label
      PROVE  i = j
  <2>1. i # 1 /\ j # 1
    BY <1>1, <1>3, <1>8
  <2>2. i - 1 \in DOMAIN items /\ more[i] = items[i - 1] /\ j - 1 \in DOMAIN items /\ more[j] = items[j - 1]
    BY <1>4, <2>1
  <2>3. i - 1 = j - 1
    BY <1>8, <2>2 DEF TodoOK
  <2> QED
    BY <1>3, <2>3
<1>9. ASSUME NEW i \in DOMAIN more, more[i].do = "expr", NEW l \in Exits(more[i].branch)
      PROVE  \/ l \in {accept, reject}
             \/ \E j \in DOMAIN more : i < j /\ more[j].do = "place" /\ more[j].label = l
  <2>1. CASE i = 1
    <3>1. l \in {accept, reject} \/ l \in Awaited(items)
      BY <1>1, <1>3, <1>9, <2>1
    <3>2. ASSUME l \in Awaited(items)
          PROVE  \E j \in DOMAIN more : i < j /\ more[j].do = "place" /\ more[j].label = l
      <4>1. PICK j \in DOMAIN items : items[j].do = "place" /\ items[j].label = l
        BY <3>2 DEF Awaited
      <4>2. j + 1 \in DOMAIN more /\ 1 < j + 1 /\ more[j + 1] = items[j]
        BY <1>3, <1>5
      <4> QED
        BY <2>1, <4>1, <4>2
    <3> QED
      BY <3>1, <3>2
  <2>2. CASE i # 1
    <3>1. i - 1 \in DOMAIN items /\ more[i] = items[i - 1]
      BY <1>4, <2>2
    <3>2. ASSUME NEW k \in DOMAIN items, items[k].do = "expr", NEW a \in Exits(items[k].branch)
          PROVE  \/ a \in {accept, reject}
                 \/ \E j \in DOMAIN items : k < j /\ items[j].do = "place" /\ items[j].label = a
      BY <3>2, Zenon DEF TodoOK
    <3>3. \/ l \in {accept, reject}
          \/ \E j \in DOMAIN items : i - 1 < j /\ items[j].do = "place" /\ items[j].label = l
      BY <1>9, <3>1, <3>2
    <3>4. ASSUME NEW j \in DOMAIN items, i - 1 < j, items[j].do = "place", items[j].label = l
          PROVE  \E k \in DOMAIN more : i < k /\ more[k].do = "place" /\ more[k].label = l
      <4>1. j + 1 \in DOMAIN more /\ i < j + 1 /\ more[j + 1] = items[j]
        BY <1>3, <1>5, <3>4
      <4> QED
        BY <3>4, <4>1
    <3> QED
      BY <3>3, <3>4
  <2> QED
    BY <2>1, <2>2
<1>10. TodoOK(more, n)
  BY <1>3, <1>7, <1>8, <1>9 DEF TodoOK
<1> QED
  BY <1>6, <1>10 DEF more, call

(* A placement in front, of a label that is not placed later on. *)
LEMMA TodoPlace ==
  ASSUME NEW items, NEW n \in Nat, TodoOK(items, n), NEW l \in 2..(n - 1), l \notin Awaited(items)
  PROVE  /\ TodoOK(<<PlaceLater(l)>> \o items, n)
         /\ Awaited(<<PlaceLater(l)>> \o items) = {l} \cup Awaited(items)
<1> DEFINE place == PlaceLater(l)
           more == <<place>> \o items
           m == Len(items)
<1>1. place \in Items /\ place.do = "place" /\ place.label = l
  BY MakeItems DEF PlaceLater
<1>2. items \in Seq(Items)
  BY DEF TodoOK
<1> HIDE DEF Items, place
<1>3. /\ m \in Nat /\ DOMAIN items = 1..m /\ more \in Seq(Items) /\ DOMAIN more = 1..(m + 1)
      /\ more[1] = place /\ \A i \in 1..m : more[i + 1] = items[i]
  BY <1>1, <1>2
<1> HIDE DEF more, m
<1>4. \A i \in DOMAIN more : i = 1 \/ (i - 1 \in DOMAIN items /\ more[i] = items[i - 1])
  BY <1>3
<1>5. /\ \A i \in DOMAIN items : i + 1 \in DOMAIN more /\ more[i + 1] = items[i]
      /\ 1 \in DOMAIN more
  BY <1>3
<1>6. Awaited(more) = {l} \cup Awaited(items)
  <2>1. ASSUME NEW a \in Awaited(more) PROVE a \in {l} \cup Awaited(items)
    <3>1. PICK i \in DOMAIN more : more[i].do = "place" /\ more[i].label = a
      BY DEF Awaited
    <3>2. CASE i = 1
      BY <1>1, <1>3, <3>1, <3>2
    <3>3. CASE i # 1
      BY <1>4, <3>1, <3>3 DEF Awaited
    <3> QED
      BY <3>2, <3>3
  <2>2. ASSUME NEW a \in Awaited(items) PROVE a \in Awaited(more)
    <3>1. PICK i \in DOMAIN items : items[i].do = "place" /\ items[i].label = a
      BY DEF Awaited
    <3> QED
      BY <1>5, <3>1 DEF Awaited
  <2>3. l \in Awaited(more)
    BY <1>1, <1>3, <1>5 DEF Awaited
  <2> QED
    BY <2>1, <2>2, <2>3
<1>7. \A i \in DOMAIN more : more[i].do = "place" => more[i].label \in 2..(n - 1)
  <2>1. \A i \in DOMAIN items : items[i].do = "place" => items[i].label \in 2..(n - 1)
    BY DEF TodoOK
  <2> QED
    BY <1>1, <1>3, <1>4, <2>1
<1>8. ASSUME NEW i \in DOMAIN more, NEW j \in DOMAIN more, more[i].do = "place",
             more[j].do = "place", more[i].label = more[j].label
      PROVE  i = j
  <2>1. ASSUME NEW k \in DOMAIN more, k # 1, more[k].do = "place" PROVE more[k].label # l
    BY <1>4, <2>1 DEF Awaited
  <2>2. CASE i = 1 \/ j = 1
    BY <1>1, <1>3, <1>8, <2>1, <2>2
  <2>3. CASE i # 1 /\ j # 1
    <3>1. i - 1 \in DOMAIN items /\ more[i] = items[i - 1]
          /\ j - 1 \in DOMAIN items /\ more[j] = items[j - 1]
      BY <1>4, <2>3
    <3>2. i - 1 = j - 1
      BY <1>8, <3>1 DEF TodoOK
    <3> QED
      BY <1>3, <3>2
  <2> QED
    BY <2>2, <2>3
<1>9. ASSUME NEW i \in DOMAIN more, more[i].do = "expr", NEW a \in Exits(more[i].branch)
      PROVE  \/ a \in {accept, reject}
             \/ \E j \in DOMAIN more : i < j /\ more[j].do = "place" /\ more[j].label = a
  <2>1. i # 1
    BY <1>1, <1>3, <1>9
  <2>2. i - 1 \in DOMAIN items /\ more[i] = items[i - 1]
    BY <1>4, <2>1
  <2>3. ASSUME NEW k \in DOMAIN items, items[k].do = "expr", NEW b \in Exits(items[k].branch)
        PROVE  \/ b \in {accept, reject}
               \/ \E j \in DOMAIN items : k < j /\ items[j].do = "place" /\ items[j].label = b
    BY <2>3, Zenon DEF TodoOK
  <2>4. \/ a \in {accept, reject}
        \/ \E j \in DOMAIN items : i - 1 < j /\ items[j].do = "place" /\ items[j].label = a
    BY <1>9, <2>2, <2>3
  <2>5. ASSUME NEW j \in DOMAIN items, i - 1 < j, items[j].do = "place", items[j].label = a
        PROVE  \E k \in DOMAIN more : i < k /\ more[k].do = "place" /\ more[k].label = a
    <3>1. j + 1 \in DOMAIN more /\ i < j + 1 /\ more[j + 1] = items[j]
      BY <1>3, <1>5, <2>5
    <3> QED
      BY <2>5, <3>1
  <2> QED
    BY <2>4, <2>5
<1>10. TodoOK(more, n)
  BY <1>3, <1>7, <1>8, <1>9 DEF TodoOK
<1> QED
  BY <1>6, <1>10 DEF more, place

(* Three items in front, one by one. *)
LEMMA UnrollItems ==
  ASSUME NEW a \in Items, NEW b \in Items, NEW d \in Items, NEW items \in Seq(Items)
  PROVE  <<a, b, d>> \o items = <<a>> \o (<<b>> \o (<<d>> \o items))
<1>1. /\ <<a>> \in Seq(Items) /\ <<b>> \in Seq(Items) /\ <<d>> \in Seq(Items)
      /\ <<b>> \o <<d>> \in Seq(Items) /\ <<d>> \o items \in Seq(Items)
  <2> HIDE DEF Items
  <2> QED
    OBVIOUS
<1>2. <<a, b, d>> = <<a>> \o (<<b>> \o <<d>>)
  <2>1. <<b, d>> = <<b>> \o <<d>> /\ <<a, b, d>> = <<a>> \o <<b, d>>
    BY Unroll2, Unroll3, Zenon
  <2> QED
    BY <2>1, Zenon
<1>3. (<<a>> \o (<<b>> \o <<d>>)) \o items = <<a>> \o ((<<b>> \o <<d>>) \o items)
  BY <1>1, ConcatAssociative
<1>4. (<<b>> \o <<d>>) \o items = <<b>> \o (<<d>> \o items)
  BY <1>1, ConcatAssociative
<1> QED
  BY <1>2, <1>3, <1>4, Zenon

-----------------------------------------------------------------------------
(* The steps. *)

(* generate starts with an empty stream and one call. *)
LEMMA InitInv == CgInit => CgInv
<1> SUFFICES ASSUME CgInit PROVE CgInv
  OBVIOUS
<1>1. TodoOK(<<>>, 2) /\ Awaited(<<>>) = {}
  BY DEF TodoOK, Awaited
<1>2. accept = 0 /\ reject = 1 /\ expr \in Exprs
  BY DEF accept, reject, CgInit
<1>3. TodoOK(<<Call(expr, Branch(accept, reject))>> \o <<>>, 2)
      /\ Awaited(<<Call(expr, Branch(accept, reject))>> \o <<>>) = {}
  <2> DEFINE none == <<>>
  <2>1. /\ TodoOK(none, 2) /\ Awaited(none) = {} /\ accept \in Nat /\ reject \in Nat /\ 2 \in Nat
        /\ {accept, reject} \subseteq {accept, reject} \cup Awaited(none)
    BY <1>1, <1>2
  <2> HIDE DEF none
  <2>2. /\ TodoOK(<<Call(expr, Branch(accept, reject))>> \o none, 2)
        /\ Awaited(<<Call(expr, Branch(accept, reject))>> \o none) = Awaited(none)
    BY <1>2, <2>1, TodoCall
  <2> QED
    BY <2>1, <2>2, Zenon DEF none
<1>4. <<Call(expr, Branch(accept, reject))>> \o <<>> = <<Call(expr, Branch(accept, reject))>>
  OBVIOUS
<1>5. TodoOK(todo, num_labels) /\ Awaited(todo) = {}
  BY <1>3, <1>4, Zenon DEF CgInit
<1>6. Labels \ Open = {}
  BY <1>2 DEF Labels, Open, CgInit
<1>7. Sound(stream, {}, Open)
  BY SoundNone, Zenon DEF CgInit
<1>8. Sound(stream, Labels \ Open, Open)
  BY <1>6, <1>7, Zenon
<1>9. /\ expr \in Exprs /\ link_type \in LinkTypes /\ snaplen \in Snaplens
      /\ num_labels \in Nat /\ num_labels >= 2
      /\ status \in {"running", "ok", "failed"} /\ (status = "failed" <=> error # {})
  BY DEF CgInit
<1> QED
  BY <1>5, <1>8, <1>9 DEF CgInv

(* The open labels have been handed out. *)
LEMMA OpenRange == CgInv => Open \subseteq Labels /\ Labels = 0..(num_labels - 1)
<1> SUFFICES ASSUME CgInv PROVE Open \subseteq Labels
  BY DEF Labels
<1>1. num_labels \in Nat /\ num_labels >= 2 /\ TodoOK(todo, num_labels)
  BY DEF CgInv
<1>2. Awaited(todo) \subseteq 2..(num_labels - 1)
  BY <1>1, AwaitedRange
<1> QED
  BY <1>1, <1>2 DEF Open, Labels, accept, reject

(* A call about to be made branches to open labels. *)
LEMMA HeadCall ==
  ASSUME CgInv, NEW tag, Calling(tag)
  PROVE  /\ Here \in Exprs /\ Here.tag = tag
         /\ BranchOK(HereBranch, num_labels) /\ Exits(HereBranch) \subseteq Open
         /\ HereBranch.on_true \in Nat /\ HereBranch.on_false \in Nat
         /\ TodoOK(Tail(todo), num_labels)
         /\ Open = {accept, reject} \cup Awaited(Tail(todo))
         /\ Head(todo) \in Items
<1>1. /\ num_labels \in Nat /\ TodoOK(todo, num_labels) /\ todo # <<>> /\ status = "running"
      /\ Head(todo).do = "expr"
  BY DEF CgInv, Calling
<1>2. /\ Head(todo) \in Items /\ TodoOK(Tail(todo), num_labels)
      /\ Exits(Head(todo).branch) \subseteq {accept, reject} \cup Awaited(Tail(todo))
      /\ Awaited(todo) = Awaited(Tail(todo))
  BY <1>1, TodoTail
<1>3. /\ Head(todo).e \in Exprs /\ Head(todo).branch.on_true \in Nat
      /\ Head(todo).branch.on_false \in Nat
  BY <1>1, <1>2, ItemKinds
<1>4. Open = {accept, reject} \cup Awaited(Tail(todo))
  BY <1>1, <1>2 DEF Open
<1>5. Exits(HereBranch) \subseteq Open
  BY <1>2, <1>4 DEF HereBranch
<1>6. BranchOK(HereBranch, num_labels)
  BY <1>5, OpenRange DEF BranchOK, Exits
<1> QED
  BY <1>2, <1>3, <1>4, <1>5, <1>6 DEF Here, HereBranch, Calling

(* A call that appends a fine block and returns. *)
LEMMA EmitsInv ==
  ASSUME CgInv, NEW tag, Calling(tag), NEW block, Fine(block, num_labels, Exits(HereBranch)),
         Emits(block)
  PROVE  CgInv'
<1> DEFINE O == Open
           n == num_labels
           P1 == Labels \ O
           P2 == n..(block.n - 1)
<1>1. /\ n \in Nat /\ n >= 2 /\ status = "running" /\ Sound(stream, P1, O)
  BY DEF CgInv, Calling
<1>2. /\ stream' = stream \o block.code /\ num_labels' = block.n /\ todo' = Tail(todo)
      /\ expr' = expr /\ link_type' = link_type /\ snaplen' = snaplen
      /\ status' = status /\ error' = error
  BY DEF Emits
<1>3. block.n \in Nat /\ n <= block.n /\ Sound(block.code, P2, Exits(HereBranch))
  BY DEF Fine
<1>4. Exits(HereBranch) \subseteq O /\ TodoOK(Tail(todo), n) /\ O = {accept, reject} \cup Awaited(Tail(todo))
  BY HeadCall
<1>5. O \subseteq Labels /\ Labels = 0..(n - 1)
  BY OpenRange
<1>6. P1 \cap P2 = {} /\ O \cap (P1 \cup P2) = {} /\ P1 \cup P2 = (0..(block.n - 1)) \ O
  BY <1>1, <1>3, <1>5
<1>7. Open' = O
  BY <1>1, <1>2, <1>4 DEF Open
<1>8. Labels' = 0..(block.n - 1)
  BY <1>2 DEF Labels
<1> HIDE DEF O, n, P1, P2
<1>9. Sound(stream \o block.code, P1 \cup P2, O)
  BY <1>1, <1>3, <1>4, <1>6, SoundCat
<1>10. Sound(stream', Labels' \ Open', Open')
  BY <1>2, <1>6, <1>7, <1>8, <1>9, Zenon
<1>11. TodoOK(todo', num_labels')
  BY <1>1, <1>2, <1>3, <1>4, TodoMore
<1>12. /\ (expr \in Exprs /\ link_type \in LinkTypes /\ snaplen \in Snaplens)'
       /\ (status \in {"running", "ok", "failed"} /\ (status = "failed" <=> error # {}))'
  BY <1>2 DEF CgInv
<1>13. num_labels' \in Nat /\ num_labels' >= 2
  BY <1>1, <1>2, <1>3
<1> QED
  BY <1>10, <1>11, <1>12, <1>13 DEF CgInv

(* A call that is replaced by others, which place the label it takes. *)
LEMMA BecomeInv ==
  ASSUME CgInv, status = "running", NEW calls, NEW taken \in Nat, Become(calls, taken),
         TodoOK(calls \o Tail(todo), num_labels + taken),
         {accept, reject} \cup Awaited(calls \o Tail(todo))
           = Open \cup (num_labels..(num_labels + taken - 1))
  PROVE  CgInv'
<1>1. num_labels \in Nat /\ num_labels >= 2 /\ Sound(stream, Labels \ Open, Open)
  BY DEF CgInv
<1>2. /\ stream' = stream /\ num_labels' = num_labels + taken /\ todo' = calls \o Tail(todo)
      /\ expr' = expr /\ link_type' = link_type /\ snaplen' = snaplen
      /\ status' = status /\ error' = error
  BY DEF Become
<1>3. Open' = Open \cup (num_labels..(num_labels + taken - 1))
  BY <1>2 DEF Open
<1>4. Open \subseteq Labels /\ Labels = 0..(num_labels - 1) /\ Labels' = 0..(num_labels + taken - 1)
  <2>1. Labels' = 0..(num_labels' - 1)
    BY DEF Labels
  <2>2. Labels' = 0..(num_labels + taken - 1)
    BY <1>1, <1>2, <2>1
  <2> QED
    BY <2>2, OpenRange
<1>5. Labels' \ Open' = Labels \ Open /\ Open \subseteq Open' /\ Open' \cap (Labels \ Open) = {}
  BY <1>1, <1>3, <1>4
<1> DEFINE P == Labels \ Open
           O == Open
           O2 == Open'
<1> HIDE DEF P, O, O2
<1>6. Sound(stream, P, O2)
  <2>1. Sound(stream, P, O) /\ O \subseteq O2 /\ O2 \cap P = {}
    BY <1>1, <1>5 DEF P, O, O2
  <2> QED
    BY <2>1 DEF Sound
<1>7. Sound(stream', Labels' \ Open', Open')
  BY <1>2, <1>5, <1>6, Zenon DEF P, O2
<1>8. /\ (expr \in Exprs /\ link_type \in LinkTypes /\ snaplen \in Snaplens)'
      /\ (status \in {"running", "ok", "failed"} /\ (status = "failed" <=> error # {}))'
  BY <1>2 DEF CgInv
<1>9. num_labels' \in Nat /\ num_labels' >= 2 /\ TodoOK(todo', num_labels')
  BY <1>1, <1>2
<1> QED
  BY <1>7, <1>8, <1>9 DEF CgInv

(* The parts of an expression. *)
LEMMA Parts ==
  ASSUME NEW e \in Exprs
  PROVE  /\ e.tag = "Leaf" => IsCompiledPrimitive(e.p)
         /\ e.tag = "EtherLeaf" => IsEtherPrimitive(e.ether)
         /\ e.tag = "Not" => e.inner \in Exprs
         /\ e.tag \in {"And", "Or"} => e.l \in Exprs /\ e.r \in Exprs
<1>1. \/ e.tag = "Leaf" /\ IsCompiledPrimitive(e.p)
      \/ e.tag = "EtherLeaf" /\ IsEtherPrimitive(e.ether)
      \/ e.tag = "Not" /\ e.inner \in Exprs
      \/ e.tag \in {"And", "Or"} /\ e.l \in Exprs /\ e.r \in Exprs
  BY CodegenAssumption
<1> QED
  BY <1>1

(* The two sides of an `and` or an `or` with the label between them: the   *)
(* first branches to the label in the one case and to where the whole      *)
(* branches in the other.                                                  *)
LEMMA TwoSides ==
  ASSUME CgInv, NEW tag, Calling(tag), NEW l \in Exprs, NEW r \in Exprs, NEW t, NEW f,
         {t, f} \subseteq Exits(HereBranch) \cup {num_labels},
         Become(<<Call(l, Branch(t, f)), PlaceLater(num_labels), Call(r, HereBranch)>>, 1)
  PROVE  CgInv'
<1> DEFINE rest == Tail(todo)
           n == num_labels
           b == HereBranch
           right == <<Call(r, b)>> \o rest
           placed == <<PlaceLater(n)>> \o right
           left == <<Call(l, Branch(t, f))>> \o placed
<1>1. n \in Nat /\ n >= 2 /\ status = "running" /\ n + 1 \in Nat /\ n <= n + 1
  BY DEF CgInv, Calling
<1>2. /\ TodoOK(rest, n) /\ Open = {accept, reject} \cup Awaited(rest)
      /\ BranchOK(b, n) /\ Exits(b) \subseteq Open /\ b.on_true \in Nat /\ b.on_false \in Nat
      /\ Head(todo) \in Items /\ Head(todo).do = "expr"
  BY HeadCall DEF Calling
<1>3. TodoOK(rest, n + 1) /\ Awaited(rest) \subseteq 2..(n - 1)
  BY <1>1, <1>2, TodoMore, AwaitedRange
<1>4. b = Branch(b.on_true, b.on_false)
  BY <1>2 DEF Items, Branch, HereBranch
<1>5. {b.on_true, b.on_false} \subseteq {accept, reject} \cup Awaited(rest)
  BY <1>2 DEF Exits
<1>6. TodoOK(right, n + 1) /\ Awaited(right) = Awaited(rest)
  <2> HIDE DEF rest, n, b
  <2>1. /\ TodoOK(<<Call(r, Branch(b.on_true, b.on_false))>> \o rest, n + 1)
        /\ Awaited(<<Call(r, Branch(b.on_true, b.on_false))>> \o rest) = Awaited(rest)
    BY <1>1, <1>2, <1>3, <1>5, TodoCall
  <2> QED
    BY <1>4, <2>1, Zenon
<1>7. n \in 2..((n + 1) - 1) /\ n \notin Awaited(right)
  BY <1>1, <1>3, <1>6
<1>8. TodoOK(placed, n + 1) /\ Awaited(placed) = {n} \cup Awaited(rest)
  <2> HIDE DEF right, rest, n
  <2> QED
    BY <1>1, <1>6, <1>7, TodoPlace
<1>9. t \in Nat /\ f \in Nat /\ {t, f} \subseteq {accept, reject} \cup Awaited(placed)
  BY <1>1, <1>2, <1>8 DEF Exits
<1>10. TodoOK(left, n + 1) /\ Awaited(left) = {n} \cup Awaited(rest)
  <2> HIDE DEF placed, rest, n
  <2> QED
    BY <1>1, <1>8, <1>9, TodoCall
<1> DEFINE calls == <<Call(l, Branch(t, f)), PlaceLater(n), Call(r, b)>>
<1>11. calls \o rest = left
  <2>1. Call(l, Branch(t, f)) \in Items /\ PlaceLater(n) \in Items
    BY <1>1, <1>9, MakeItems
  <2>2. Call(r, b) \in Items
    BY <1>2, <1>4, MakeItems, Zenon
  <2>3. rest \in Seq(Items)
    BY <1>2 DEF TodoOK
  <2> DEFINE i1 == Call(l, Branch(t, f))
             i2 == PlaceLater(n)
             i3 == Call(r, b)
  <2>4. i1 \in Items /\ i2 \in Items /\ i3 \in Items
    BY <2>1, <2>2
  <2>5. calls = <<i1, i2, i3>> /\ left = <<i1>> \o (<<i2>> \o (<<i3>> \o rest))
    OBVIOUS
  <2> HIDE DEF Items, rest, i1, i2, i3, calls, left
  <2>6. <<i1, i2, i3>> \o rest = <<i1>> \o (<<i2>> \o (<<i3>> \o rest))
    BY <2>3, <2>4, UnrollItems
  <2> QED
    BY <2>5, <2>6, Zenon
<1>12. {accept, reject} \cup Awaited(calls \o rest) = Open \cup (n..(n + 1 - 1))
  <2>1. n..(n + 1 - 1) = {n}
    BY <1>1
  <2>2. {accept, reject} \cup Awaited(left) = Open \cup {n}
    BY <1>2, <1>10
  <2> QED
    BY <1>11, <2>1, <2>2, Zenon
<1>13. TodoOK(calls \o rest, n + 1)
  BY <1>10, <1>11, Zenon
<1>14. Become(calls, 1)
  OBVIOUS
<1> HIDE DEF calls, left
<1> QED
  BY <1>1, <1>12, <1>13, <1>14, BecomeInv

(* A label is placed. *)
LEMMA PlaceInv == CgInv /\ Place => CgInv'
<1> SUFFICES ASSUME CgInv, Place PROVE CgInv'
  OBVIOUS
<1> DEFINE n == num_labels
           l == Head(todo).label
           rest == Tail(todo)
           O == Open
           O2 == {accept, reject} \cup Awaited(rest)
           P1 == Labels \ O
<1>1. /\ n \in Nat /\ n >= 2 /\ status = "running" /\ todo # <<>> /\ Head(todo).do = "place"
      /\ TodoOK(todo, n) /\ Sound(stream, P1, O)
  BY DEF CgInv, Place
<1>2. /\ stream' = stream \o <<Mark(l)>> /\ num_labels' = n /\ todo' = rest
      /\ expr' = expr /\ link_type' = link_type /\ snaplen' = snaplen
      /\ status' = status /\ error' = error
  BY BlockFields DEF Place, Emits
<1>3. /\ TodoOK(rest, n) /\ l \in 2..(n - 1) /\ l \notin Awaited(rest)
      /\ Awaited(todo) = {l} \cup Awaited(rest)
  BY <1>1, TodoTail
<1>4. O = O2 \cup {l} /\ l \notin O2
  BY <1>1, <1>3 DEF Open, accept, reject
<1>5. O \subseteq Labels /\ Labels = 0..(n - 1)
  BY OpenRange
<1>6. Open' = O2 /\ Labels' = Labels
  BY <1>1, <1>2 DEF Open, Labels
<1>7. P1 \cap {l} = {} /\ O2 \cap (P1 \cup {l}) = {} /\ P1 \cup {l} = Labels \ O2
  BY <1>3, <1>4, <1>5
<1>8. l \in Nat /\ Mark(l) \in Entries /\ Refs(Mark(l)) = {} /\ Places(Mark(l)) = {l}
  BY <1>3, MarkEntry
<1> HIDE DEF n, l, rest, O, O2, P1
<1>9. Sound(<<Mark(l)>>, {l}, O2)
  BY <1>4, <1>8, SoundOne
<1>10. Sound(stream \o <<Mark(l)>>, P1 \cup {l}, O2)
  BY <1>1, <1>4, <1>7, <1>9, SoundCat
<1>11. Sound(stream', Labels' \ Open', Open')
  BY <1>2, <1>6, <1>7, <1>10, Zenon
<1>12. /\ (expr \in Exprs /\ link_type \in LinkTypes /\ snaplen \in Snaplens)'
       /\ (status \in {"running", "ok", "failed"} /\ (status = "failed" <=> error # {}))'
  BY <1>2 DEF CgInv
<1>13. num_labels' \in Nat /\ num_labels' >= 2 /\ TodoOK(todo', num_labels')
  BY <1>1, <1>2, <1>3
<1> QED
  BY <1>11, <1>12, <1>13 DEF CgInv

(* The return blocks place the two labels that are left. *)
LEMMA FinishInv == CgInv /\ Finish => CgInv'
<1> SUFFICES ASSUME CgInv, Finish PROVE CgInv'
  OBVIOUS
<1> DEFINE a == Mark(accept)
           b == Ret(snaplen, NoOffset)
           d == Mark(reject)
           e == Ret(Zero, NoOffset)
           E == {0, 1}
           P1 == Labels \ E
<1>1. /\ num_labels \in Nat /\ num_labels >= 2 /\ status = "running" /\ todo = <<>>
      /\ TodoOK(todo, num_labels) /\ snaplen \in Word
  BY CodegenAssumption DEF CgInv, Finish
<1>2. /\ stream' = stream \o <<a, b, d, e>> /\ num_labels' = num_labels /\ todo' = todo
      /\ expr' = expr /\ link_type' = link_type /\ snaplen' = snaplen
      /\ status' = "ok" /\ error' = error
  BY DEF Finish
<1>3. Open = E /\ Open' = {} /\ Labels' = Labels
  BY <1>1, <1>2 DEF Open, Awaited, accept, reject, Labels
<1>4. Sound(stream, P1, E)
  BY <1>3, Zenon DEF CgInv
<1>5. E \subseteq Labels
  BY <1>3, OpenRange
<1>6. NoOffset \in Offset /\ Zero \in Word
  BY DEF NoOffset, Span, Offset, Zero, Word
<1>7. IsPlain(b) /\ IsPlain(e)
  BY <1>1, <1>6, PlainEntries
<1>8. a = Mark(0) /\ d = Mark(1)
  BY DEF accept, reject
<1> HIDE DEF a, b, d, e
<1>9. Sound(<<a, b, d, e>>, E, {})
  <2>1. Sound(<<e>>, {}, {}) /\ Sound(<<b>>, {}, {})
    BY <1>7, SoundPlain
  <2>2. Sound(<<Mark(1)>> \o <<e>>, {1} \cup {}, {})
    BY <2>1, SoundMark
  <2>3. Sound(<<d, e>>, {1}, {})
    <3>1. {1} \cup {} = {1}
      OBVIOUS
    <3> QED
      BY <1>8, <2>2, <3>1, Unroll2, Zenon
  <2>4. b \in Entries /\ Places(b) = {} /\ Refs(b) \subseteq {} \cup {1}
    BY <1>7 DEF IsPlain
  <2>5. Sound(<<b>> \o <<d, e>>, {1}, {})
    BY <2>3, <2>4, SoundBefore
  <2>6. Sound(<<b, d, e>>, {1}, {})
    BY <2>5, Unroll3, Zenon
  <2>7. 0 \in Nat /\ 0 \notin {1} \cup {}
    OBVIOUS
  <2>8. Sound(<<Mark(0)>> \o <<b, d, e>>, {0} \cup {1}, {})
    BY <2>6, <2>7, SoundMark
  <2>9. {0} \cup {1} = E
    OBVIOUS
  <2> QED
    BY <1>8, <2>8, <2>9, Unroll4, Zenon
<1>10. P1 \cap E = {} /\ {} \cap (P1 \cup E) = {} /\ P1 \cup E = Labels \ {} /\ E \subseteq {} \cup E
  BY <1>5
<1> HIDE DEF E, P1
<1>11. Sound(stream \o <<a, b, d, e>>, P1 \cup E, {})
  BY <1>4, <1>9, <1>10, SoundCat
<1>12. Sound(stream', Labels' \ Open', Open')
  BY <1>2, <1>3, <1>10, <1>11, Zenon
<1>13. /\ (expr \in Exprs /\ link_type \in LinkTypes /\ snaplen \in Snaplens)'
       /\ (status \in {"running", "ok", "failed"} /\ (status = "failed" <=> error # {}))'
  BY <1>1, <1>2 DEF CgInv
<1>14. num_labels' \in Nat /\ num_labels' >= 2 /\ TodoOK(todo', num_labels')
  BY <1>1, <1>2
<1> QED
  BY <1>12, <1>13, <1>14 DEF CgInv

(* An error leaves stream and labels as they are. *)
LEMMA FailInv ==
  ASSUME CgInv, status = "running", NEW offset, Fail(offset)
  PROVE  CgInv'
<1>1. /\ stream' = stream /\ num_labels' = num_labels /\ todo' = todo
      /\ expr' = expr /\ link_type' = link_type /\ snaplen' = snaplen
      /\ status' = "failed" /\ error' = {offset}
  BY DEF Fail
<1>2. Open' = Open /\ Labels' = Labels
  BY <1>1 DEF Open, Labels
<1>3. Sound(stream', Labels' \ Open', Open')
  BY <1>1, <1>2, Zenon DEF CgInv
<1>4. TodoOK(todo', num_labels')
  BY <1>1, Zenon DEF CgInv
<1> QED
  BY <1>1, <1>3, <1>4 DEF CgInv

(* Every step keeps the invariant. *)
LEMMA NextInv == CgInv /\ [CgNext]_cgVars => CgInv'
<1> SUFFICES ASSUME CgInv, [CgNext]_cgVars PROVE CgInv'
  OBVIOUS
<1> DEFINE n == num_labels
<1>1. n \in Nat /\ link_type \in LinkTypes
  BY DEF CgInv
<1>2. ASSUME CompileLeaf PROVE CgInv'
  <2>1. Calling("Leaf") /\ status = "running"
    BY <1>2 DEF CompileLeaf, Calling
  <2>2. Here \in Exprs /\ Here.tag = "Leaf" /\ BranchOK(HereBranch, n)
    BY <2>1, HeadCall
  <2>3. IsCompiledPrimitive(Here.p)
    BY <2>2, Parts
  <2>4. CASE PrimFits(ctx, Here.p) /\ Emits(compile_primitive(ctx, n, Here.p, HereBranch))
    <3> DEFINE block == compile_primitive(ctx, n, Here.p, HereBranch)
    <3>1. Fine(block, n, Exits(HereBranch))
      BY <1>1, <2>2, <2>3, <2>4, PrimitiveFine
    <3>2. Emits(block)
      BY <2>4
    <3> HIDE DEF block
    <3> QED
      BY <2>1, <3>1, <3>2, EmitsInv
  <2>5. CASE Fail(Here.p.offset)
    BY <2>1, <2>5, FailInv
  <2> QED
    BY <1>2, <2>4, <2>5 DEF CompileLeaf
<1>3. ASSUME CompileEtherLeaf PROVE CgInv'
  <2>1. Calling("EtherLeaf") /\ status = "running"
    BY <1>3 DEF CompileEtherLeaf, Calling
  <2>2. Here \in Exprs /\ Here.tag = "EtherLeaf" /\ BranchOK(HereBranch, n)
    BY <2>1, HeadCall
  <2>3. IsEtherPrimitive(Here.ether)
    BY <2>2, Parts
  <2>4. CASE EtherFits(ctx) /\ Emits(compile_ether(ctx, n, Here.ether, HereBranch))
    <3> DEFINE block == compile_ether(ctx, n, Here.ether, HereBranch)
    <3>1. Fine(block, n, Exits(HereBranch))
      BY <1>1, <2>2, <2>3, <2>4, EtherFine DEF ctx
    <3>2. Emits(block)
      BY <2>4
    <3> HIDE DEF block
    <3> QED
      BY <2>1, <3>1, <3>2, EmitsInv
  <2>5. CASE Fail(Here.ether.offset)
    BY <2>1, <2>5, FailInv
  <2> QED
    BY <1>3, <2>4, <2>5 DEF CompileEtherLeaf
<1>4. ASSUME CompileNot PROVE CgInv'
  <2> DEFINE b == HereBranch
             calls == <<Call(Here.inner, swapped(b))>>
             rest == Tail(todo)
  <2>1. Calling("Not") /\ status = "running" /\ Become(calls, 0)
    BY <1>4 DEF CompileNot, Calling
  <2>2. /\ Here \in Exprs /\ Here.tag = "Not" /\ TodoOK(rest, n)
        /\ Exits(b) \subseteq Open /\ Open = {accept, reject} \cup Awaited(rest)
        /\ b.on_true \in Nat /\ b.on_false \in Nat
    BY <2>1, HeadCall
  <2>3. Here.inner \in Exprs
    BY <2>2, Parts
  <2>4. {b.on_false, b.on_true} \subseteq {accept, reject} \cup Awaited(rest)
    BY <2>2 DEF Exits
  <2>5. TodoOK(calls \o rest, n) /\ Awaited(calls \o rest) = Awaited(rest)
    <3> HIDE DEF rest, b, n
    <3>1. /\ TodoOK(<<Call(Here.inner, Branch(b.on_false, b.on_true))>> \o rest, n)
          /\ Awaited(<<Call(Here.inner, Branch(b.on_false, b.on_true))>> \o rest) = Awaited(rest)
      BY <1>1, <2>2, <2>3, <2>4, TodoCall
    <3> QED
      BY <3>1, Zenon DEF swapped
  <2>6. n + 0 = n /\ n..(n + 0 - 1) = {}
    BY <1>1
  <2> HIDE DEF calls
  <2>7. {accept, reject} \cup Awaited(calls \o rest) = Open \cup (n..(n + 0 - 1))
    BY <2>2, <2>5, <2>6
  <2>8. TodoOK(calls \o rest, n + 0)
    BY <2>5, <2>6, Zenon
  <2> QED
    BY <2>1, <2>7, <2>8, BecomeInv
<1>5. ASSUME CompileAnd PROVE CgInv'
  <2>1. /\ Calling("And")
        /\ Become(<<Call(Here.l, Branch(n, HereBranch.on_false)), PlaceLater(n),
                    Call(Here.r, HereBranch)>>, 1)
    BY <1>5 DEF CompileAnd
  <2>2. Here \in Exprs /\ Here.tag = "And"
    BY <2>1, HeadCall
  <2>3. Here.l \in Exprs /\ Here.r \in Exprs
    BY <2>2, Parts
  <2>4. {n, HereBranch.on_false} \subseteq Exits(HereBranch) \cup {num_labels}
    BY DEF Exits
  <2> QED
    BY <2>1, <2>3, <2>4, TwoSides
<1>6. ASSUME CompileDirPair PROVE CgInv'
  <2>1. Calling("Or") /\ status = "running" /\ IsDirPair(Here)
    BY <1>6 DEF CompileDirPair, Calling
  <2>2. Here \in Exprs /\ Here.tag = "Or" /\ BranchOK(HereBranch, n)
    BY <2>1, HeadCall
  <2>3. Here.l \in Exprs /\ Here.l.tag = "Leaf"
    BY <2>1, <2>2, Parts DEF IsDirPair
  <2>4. IsCompiledPrimitive(Here.l.p)
    BY <2>3, Parts
  <2>5. CASE /\ PrimFits(ctx, Here.l.p)
             /\ Emits(compile_dir_pair(ctx, n, Here.l.p, Here.r.p, HereBranch))
    <3> DEFINE block == compile_dir_pair(ctx, n, Here.l.p, Here.r.p, HereBranch)
    <3>1. Fine(block, n, Exits(HereBranch))
      BY <1>1, <2>2, <2>4, <2>5, PrimitiveFine
    <3>2. Emits(block)
      BY <2>5
    <3> HIDE DEF block
    <3> QED
      BY <2>1, <3>1, <3>2, EmitsInv
  <2>6. CASE Fail(Here.l.p.offset)
    BY <2>1, <2>6, FailInv
  <2> QED
    BY <1>6, <2>5, <2>6 DEF CompileDirPair
<1>7. ASSUME CompileOr PROVE CgInv'
  <2>1. /\ Calling("Or")
        /\ Become(<<Call(Here.l, Branch(HereBranch.on_true, n)), PlaceLater(n),
                    Call(Here.r, HereBranch)>>, 1)
    BY <1>7 DEF CompileOr
  <2>2. Here \in Exprs /\ Here.tag = "Or"
    BY <2>1, HeadCall
  <2>3. Here.l \in Exprs /\ Here.r \in Exprs
    BY <2>2, Parts
  <2>4. {HereBranch.on_true, n} \subseteq Exits(HereBranch) \cup {num_labels}
    BY DEF Exits
  <2> QED
    BY <2>1, <2>3, <2>4, TwoSides
<1>8. ASSUME UNCHANGED cgVars PROVE CgInv'
  <2>1. /\ stream' = stream /\ num_labels' = num_labels /\ todo' = todo
        /\ expr' = expr /\ link_type' = link_type /\ snaplen' = snaplen
        /\ status' = status /\ error' = error
    BY <1>8 DEF cgVars
  <2>2. Open' = Open /\ Labels' = Labels
    BY <2>1 DEF Open, Labels
  <2>3. Sound(stream', Labels' \ Open', Open') /\ TodoOK(todo', num_labels')
    BY <2>1, <2>2, Zenon DEF CgInv
  <2> QED
    BY <2>1, <2>3 DEF CgInv
<1> QED
  BY <1>2, <1>3, <1>4, <1>5, <1>6, <1>7, <1>8, PlaceInv, FinishInv DEF CgNext, Returned

(* The invariant, of every behaviour. *)
THEOREM CodegenInvariant == CgSpec => []CgInv
  BY InitInv, NextInv, PTL DEF CgSpec

-----------------------------------------------------------------------------
(* What follows. *)

(* Every variable has its type, and every label in use has been handed out *)
(* by new_label: in particular a jump never names a label that the builder *)
(* does not know.                                                          *)
THEOREM CgTypeCorrect == CgSpec => []CgTypeOK
<1>1. CgInv => CgTypeOK
  <2> SUFFICES ASSUME CgInv PROVE CgTypeOK
    OBVIOUS
  <2>1. /\ num_labels \in Nat /\ num_labels >= 2 /\ TodoOK(todo, num_labels)
        /\ Sound(stream, Labels \ Open, Open)
    BY DEF CgInv
  <2>2. Open \subseteq Labels /\ Labels = 0..(num_labels - 1)
    BY OpenRange
  <2>3. stream \in Seq(Entries \cup {Panic})
    <3>1. stream \in Seq(Entries)
      BY <2>1 DEF Sound
    <3> HIDE DEF Entries, Panic
    <3> QED
      BY <3>1
  <2>4. ASSUME NEW i \in DOMAIN stream
        PROVE  Refs(stream[i]) \subseteq Labels /\ Places(stream[i]) \subseteq Labels
    <3>1. Places(stream[i]) \subseteq Labels
      BY <2>1 DEF Sound
    <3>2. ASSUME NEW l \in Refs(stream[i]) PROVE l \in Labels
      <4>1. l \in Open \/ \E j \in DOMAIN stream : l \in Places(stream[j])
        BY <2>1 DEF Sound
      <4> QED
        BY <2>1, <2>2, <4>1 DEF Sound
    <3> QED
      BY <3>1, <3>2
  <2>5. ASSUME NEW i \in DOMAIN todo
        PROVE  IsCall(todo[i]) \/ (todo[i].do = "place" /\ todo[i].label \in Labels)
    <3>1. todo[i] \in Items
      BY <2>1 DEF TodoOK
    <3>2. CASE todo[i].do = "place"
      BY <2>1, <2>2, <3>2 DEF TodoOK
    <3>3. CASE todo[i].do = "expr" /\ todo[i].e \in Exprs
      <4>1. ASSUME NEW l \in Exits(todo[i].branch) PROVE l \in Labels
        <5>1. \/ l \in {accept, reject}
              \/ \E j \in DOMAIN todo : todo[j].do = "place" /\ todo[j].label = l
          <6>1. Onward(todo, i, l)
            BY <2>1, <3>3, <4>1, CallExits
          <6> QED
            BY <6>1, Zenon DEF Onward
        <5>2. ASSUME NEW j \in DOMAIN todo, todo[j].do = "place" PROVE todo[j].label \in Labels
          BY <2>1, <2>2, <5>2 DEF TodoOK
        <5>3. accept \in Labels /\ reject \in Labels
          BY <2>1, <2>2 DEF accept, reject
        <5> QED
          BY <5>1, <5>2, <5>3
      <4> QED
        BY <3>3, <4>1 DEF IsCall, Exits
    <3> QED
      BY <3>1, <3>2, <3>3, ItemKinds
  <2> QED
    BY <2>1, <2>3, <2>4, <2>5 DEF CgTypeOK, CgInv
<1> QED
  BY <1>1, CodegenInvariant, PTL

(* "must be placed exactly once" (irep.rs), for every expression, link     *)
(* type and snaplen: the backpatcher neither overwrites the place of a     *)
(* label nor panics for want of one.                                       *)
THEOREM PlacesOnce == CgSpec => []LabelsPlacedOnce
<1>1. CgInv => LabelsPlacedOnce
  <2> SUFFICES ASSUME CgInv PROVE LabelsPlacedOnce
    OBVIOUS
  <2>1. Sound(stream, Labels \ Open, Open) /\ (status = "ok" => Open = {})
    BY DEF CgInv, Open
  <2> QED
    BY <2>1 DEF LabelsPlacedOnce, Sound
<1> QED
  BY <1>1, CodegenInvariant, PTL

(* "CPS lowering never emits a backward jump" (backpatch.rs): at no time   *)
(* is a jump emitted behind its label, and in a finished stream every jump *)
(* is to a label placed behind it, so displacement_from does not wrap.     *)
THEOREM JumpsOnlyForward == CgSpec => []NoBackwardJump
<1>1. CgInv => NoBackwardJump
  <2> SUFFICES ASSUME CgInv PROVE NoBackwardJump
    OBVIOUS
  <2>1. Sound(stream, Labels \ Open, Open) /\ (status = "ok" => Open = {})
    BY DEF CgInv, Open
  <2>2. stream \in Seq(Entries)
    BY <2>1 DEF Sound
  <2> DEFINE m == Len(stream)
  <2>3. DOMAIN stream = 1..m /\ m \in Nat
    BY <2>2
  <2> HIDE DEF m
  <2>4. NoJumpBack(stream)
    <3> SUFFICES ASSUME NEW i \in DOMAIN stream, NEW j \in DOMAIN stream, j < i,
                        NEW l \in Refs(stream[i]), l \in Places(stream[j])
                 PROVE  FALSE
      BY DEF NoJumpBack
    <3>1. l \in Open \/ \E k \in DOMAIN stream : i < k /\ l \in Places(stream[k])
      BY <2>1 DEF Sound
    <3>2. l \notin Open
      BY <2>1 DEF Sound
    <3>3. PICK k \in DOMAIN stream : i < k /\ l \in Places(stream[k])
      BY <3>1, <3>2
    <3>4. k = j
      BY <2>1, <3>3 DEF Sound, PlacedAtMostOnce
    <3> QED
      BY <2>3, <3>3, <3>4
  <2>5. ASSUME status = "ok" PROVE JumpsForward(stream)
    BY <2>1, <2>5 DEF Sound, JumpsForward
  <2> QED
    BY <2>4, <2>5 DEF NoBackwardJump
<1> QED
  BY <1>1, CodegenInvariant, PTL

(* Neither the `unreachable!()` of emit_l3_gate nor the `expect` of        *)
(* compile_ether_proto is reached, whatever the link type.                 *)
THEOREM PanicFree == CgSpec => []NeverPanics
<1>1. CgInv => NeverPanics
  <2> SUFFICES ASSUME CgInv, NEW i \in DOMAIN stream PROVE stream[i].op # "Panic"
    BY DEF NeverPanics
  <2>1. stream \in Seq(Entries)
    BY DEF CgInv, Sound
  <2> DEFINE e == stream[i]
  <2>2. e \in Entries
    <3> HIDE DEF Entries
    <3> QED
      BY <2>1
  <2> HIDE DEF e
  <2>3. e.op # "Panic"
    BY <2>2 DEF Entries, PlainOps, LoadOps, CondOps
  <2> QED
    BY <2>3 DEF e
<1> QED
  BY <1>1, CodegenInvariant, PTL

(* The last entry of a stream to which four are appended. *)
LEMMA Appended ==
  ASSUME NEW T, NEW s \in Seq(T), NEW t \in Seq(T), Len(t) = 4
  PROVE  Len(s \o t) = Len(s) + 4 /\ (s \o t)[Len(s) + 4] = t[4]
<1>1. /\ Len(s) \in Nat /\ Len(s \o t) = Len(s) + Len(t)
      /\ \A i \in 1..(Len(s) + Len(t)) :
            (s \o t)[i] = IF i <= Len(s) THEN s[i] ELSE t[i - Len(s)]
  BY ConcatProperties, LenProperties
<1> DEFINE k == Len(s) + 4
<1>2. k \in 1..(Len(s) + Len(t)) /\ ~(k <= Len(s)) /\ k - Len(s) = 4
  BY <1>1
<1> HIDE DEF k
<1>3. (s \o t)[k] = t[k - Len(s)]
  BY <1>1, <1>2
<1> QED
  BY <1>1, <1>2, <1>3 DEF k

(* generate returns a stream only after it has appended the two returns:   *)
(* of every step, only Finish says "ok".                                   *)
THEOREM EndsInRet == CgSpec => [](status = "ok" => ClosedByRet(stream))
<1> DEFINE Closed == status = "ok" => ClosedByRet(stream)
<1>1. CgInit => Closed
  BY DEF CgInit
<1>2. Closed /\ CgInv /\ [CgNext]_cgVars => Closed'
  <2> SUFFICES ASSUME Closed, CgInv, [CgNext]_cgVars PROVE Closed'
    OBVIOUS
  <2>1. ASSUME NEW block, status = "running", Emits(block) PROVE Closed'
    BY <2>1 DEF Emits
  <2>2. ASSUME NEW calls, NEW taken, status = "running", Become(calls, taken) PROVE Closed'
    BY <2>2 DEF Become
  <2>3. ASSUME NEW offset, Fail(offset) PROVE Closed'
    BY <2>3 DEF Fail
  <2>4. CASE Finish
    <3> DEFINE rets == <<Mark(accept), Ret(snaplen, NoOffset), Mark(reject), Ret(Zero, NoOffset)>>
    <3>1. stream' = stream \o rets
      BY <2>4 DEF Finish
    <3>2. stream \in Seq(Entries) /\ Len(stream) \in Nat
      BY DEF CgInv, Sound
    <3>3. Len(rets) = 4 /\ rets[4].op = "Ret"
      BY DEF Ret
    <3>4. PICK T : rets \in Seq(T) /\ stream \in Seq(T)
      <4> DEFINE T == Entries \cup {Mark(accept), Ret(snaplen, NoOffset), Mark(reject), Ret(Zero, NoOffset)}
      <4> HIDE DEF Entries, Mark, Ret, Zero, NoOffset, accept, reject
      <4>1. rets \in Seq(T) /\ stream \in Seq(T)
        BY <3>2
      <4> QED
        BY <4>1
    <3> HIDE DEF rets
    <3>5. /\ Len(stream \o rets) = Len(stream) + 4
          /\ (stream \o rets)[Len(stream) + 4] = rets[4]
      BY <3>3, <3>4, Appended
    <3>6. stream' # <<>> /\ stream'[Len(stream')].op = "Ret"
      BY <3>1, <3>2, <3>3, <3>5
    <3> QED
      BY <3>6 DEF ClosedByRet
  <2>5. CASE UNCHANGED cgVars
    BY <2>5 DEF cgVars
  <2> HIDE DEF Closed
  <2>6. CASE CompileLeaf
    BY <2>6, <2>1, <2>3 DEF CompileLeaf, Calling
  <2>7. CASE CompileEtherLeaf
    BY <2>7, <2>1, <2>3 DEF CompileEtherLeaf, Calling
  <2>8. CASE CompileNot
    BY <2>8, <2>2 DEF CompileNot, Calling
  <2>9. CASE CompileAnd
    BY <2>9, <2>2 DEF CompileAnd, Calling
  <2>10. CASE CompileDirPair
    BY <2>10, <2>1, <2>3 DEF CompileDirPair, Calling
  <2>11. CASE CompileOr
    BY <2>11, <2>2 DEF CompileOr, Calling
  <2>12. CASE Place
    BY <2>12, <2>1 DEF Place
  <2> QED
    BY <2>4, <2>5, <2>6, <2>7, <2>8, <2>9, <2>10, <2>11, <2>12 DEF CgNext, Returned
<1> QED
  BY <1>1, <1>2, CodegenInvariant, PTL DEF CgSpec

(* What generate hands to backpatch::assemble is what Backpatch assumes of *)
(* its input (apart from the length), is well formed in its sense and ends *)
(* in a `ret`: with NoPanicIfWellFormed and AssembledIsValid of            *)
(* BackpatchProofs, assemble never panics on the code generator's output,  *)
(* and the program it returns is valid.                                    *)
THEOREM ReadyForBackpatch ==
  CgSpec => [](status = "ok" =>
                 /\ num_labels \in Nat
                 /\ stream \in Seq(Entries)
                 /\ \A i \in DOMAIN stream :
                      (Refs(stream[i]) \cup Places(stream[i])) \subseteq 0..(num_labels - 1)
                 /\ PlacedAtMostOnce(stream) /\ JumpsForward(stream) /\ ClosedByRet(stream))
<1> DEFINE Closed == status = "ok" => ClosedByRet(stream)
           Ready == /\ num_labels \in Nat
                    /\ stream \in Seq(Entries)
                    /\ \A i \in DOMAIN stream :
                         (Refs(stream[i]) \cup Places(stream[i])) \subseteq 0..(num_labels - 1)
                    /\ PlacedAtMostOnce(stream) /\ JumpsForward(stream) /\ ClosedByRet(stream)
<1>1. CgInv /\ CgTypeOK /\ NoBackwardJump /\ Closed => (status = "ok" => Ready)
  <2> SUFFICES ASSUME CgInv, CgTypeOK, NoBackwardJump, Closed, status = "ok" PROVE Ready
    OBVIOUS
  <2>1. num_labels \in Nat /\ stream \in Seq(Entries) /\ PlacedAtMostOnce(stream)
    BY DEF CgInv, Sound
  <2>2. \A i \in DOMAIN stream :
          (Refs(stream[i]) \cup Places(stream[i])) \subseteq 0..(num_labels - 1)
    BY DEF CgTypeOK, Labels
  <2>3. JumpsForward(stream)
    BY DEF NoBackwardJump
  <2> QED
    BY <2>1, <2>2, <2>3
<1> QED
  BY <1>1, CodegenInvariant, CgTypeCorrect, JumpsOnlyForward, EndsInRet, PTL
=============================================================================
