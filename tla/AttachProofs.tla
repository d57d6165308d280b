---------------------------- MODULE AttachProofs ----------------------------
(***************************************************************************)
(* Proofs, for all names, arguments, selectors and labels and however long *)
(* the others go on, that beamctl touches what it was asked to touch and   *)
(* nothing else, works through a selection in order and leaves the user's  *)
(* terminal as it found it.                                                *)
(***************************************************************************)
EXTENDS Attach, FiniteSetTheorems, SequenceTheorems, WellFoundedInduction, TLAPS

-----------------------------------------------------------------------------
(* The inductive invariant.                                                *)

\* Which requests belong to which command, and what they leave alone.
ControlInv ==
    /\ pc \in {"next", "show"} => Selecting
    /\ pc \in {"create", "getpty", "notify", "relay", "signal", "detach", "explain", "report"}
         => ~Selecting
    /\ pc = "act" => cmd.op \in Ops
    /\ pc = "create" => cmd.op = "Start"
    /\ pc = "list" => cmd.op # "Start"
    /\ pc # "idle" /\ cmd.op = "Start" => target \in NewNames
    /\ pc \in {"idle", "list", "getpty", "notify", "relay", "signal", "detach"} => hits = <<>>
    /\ pc \in {"create", "explain", "report"} /\ req # "error" => hits = <<>>
    /\ pc \in {"idle", "list", "create"} => todo = {}
    /\ pc = "idle" \/ (pc = "list" /\ req = "sent") => listed = {}
    /\ pc = "list" => req # "error"
    /\ ~Selecting => todo = {}
    /\ todo \subseteq listed
    /\ late # {} => pc = "done" /\ exit = "failed"

\* The service in hand is still to be touched, if it is to be touched at all.
Pending == req = "sent" \/ (pc = "show" /\ req = "ok") \/ late # {}

\* The command has chosen the service in hand and may yet be executed on it.
Acting == pc = "act" \/ late # {}

\* Between show_service and the request the service may have been replaced, but then its
\* incarnation tells.
ShownInv ==
    /\ shown.gen <= table[target].gen
    /\ gens[target] <= shown.gen
    /\ shown.gen = table[target].gen /\ table[target].state # "absent"
         => shown.labels = table[target].labels

TargetInv ==
    /\ Pending => target \notin Touched /\ target \notin todo
    /\ pc = "act" /\ req = "ok" => target \in Touched
    /\ ~Selecting /\ (pc \notin {"idle", "list", "done"} \/ late # {}) => Meant(target)
    /\ Selecting /\ (Acting \/ pc = "show") => target \in listed
    /\ Selecting /\ Plain(target) /\ (Acting \/ (pc = "show" /\ req = "ok")) => ShownInv
    /\ Selecting /\ Plain(target) /\ Acting => KeysMatch(cmd.selector, shown.labels)

\* What may be executed late is what the request in hand arrived as.
LateInv ==
    \A r \in late :
        /\ r.op = "Start" => r.name \in Names
        /\ Plain(target) => r = [op |-> cmd.op, name |-> target]

GensInv == \A n \in Names : gens[n] <= table[n].gen

\* What beamctl does to services, as against what it does to the terminal.
CommandInv ==
    ControlInv /\ TargetInv /\ LateInv /\ GensInv /\ HitsAreIntended /\ SelectionIsComplete

AttachInv == AttachTypeOK /\ CommandInv /\ TerminalRestored

-----------------------------------------------------------------------------
(* The order of names.                                                     *)

\* A set of natural numbers has a least element: the intervals below its elements are
\* finite sets, and strict inclusion of finite sets is well founded.
LEMMA Smallest ==
    ASSUME NEW T \in SUBSET Nat, T # {}
    PROVE  \E x \in T : \A y \in T : x <= y
  <1> DEFINE F == {0..x : x \in T}
  <1>1. F \subseteq FiniteSubsetsOf(Nat)
    <2>1. ASSUME NEW x \in T PROVE 0..x \in FiniteSubsetsOf(Nat)
      <3>1. 0 \in Int /\ x \in Int /\ 0..x \in SUBSET Nat
        OBVIOUS
      <3>2. IsFiniteSet(0..x)
        BY <3>1, FS_Interval
      <3>3. QED
        BY <3>1, <3>2 DEF FiniteSubsetsOf
    <2>2. QED
      BY <2>1
  <1>2. F # {}
    OBVIOUS
  <1>3. IsWellFoundedOn(StrictSubsetOrdering(Nat), FiniteSubsetsOf(Nat))
    BY FS_StrictSubsetOrderingWellFounded
  <1> HIDE DEF F
  <1>4. PICK a \in F : \A b \in F : ~(<<b, a>> \in StrictSubsetOrdering(Nat))
    BY <1>1, <1>2, <1>3, WFMin
  <1>5. PICK x \in T : a = 0..x
    BY DEF F
  <1>6. ASSUME NEW y \in T, y < x PROVE FALSE
    <2>1. 0..y \in F
      BY DEF F
    <2>2. 0..y \subseteq a /\ x \in a /\ x \notin 0..y /\ 0..y \in SUBSET Nat /\ a \in SUBSET Nat
      BY <1>5, <1>6
    <2>3. <<0..y, a>> \in StrictSubsetOrdering(Nat)
      BY <2>2 DEF StrictSubsetOrdering
    <2>4. QED
      BY <1>4, <2>1, <2>3
  <1>7. QED
    BY <1>6

\* A name comes before another if it is smaller where they first differ, or ends there.
LEMMA BeforeIs ==
    ASSUME NEW a \in Seq(Nat), NEW b \in Seq(Nat)
    PROVE  Before(a, b) <=> \E k \in Nat : /\ k <= Len(a) /\ k < Len(b)
                                           /\ \A i \in 1..k : a[i] = b[i]
                                           /\ k = Len(a) \/ a[k + 1] < b[k + 1]
  <1>1. Len(a) \in Nat /\ Len(b) \in Nat
    BY LenProperties
  <1>2. QED
    BY <1>1 DEF Before

\* Two names agree up to where one of them ends or they differ.
LEMMA FirstDifference ==
    ASSUME NEW a \in Seq(Nat), NEW b \in Seq(Nat)
    PROVE  \E k \in Nat : /\ k <= Len(a) /\ k <= Len(b)
                          /\ \A i \in 1..k : a[i] = b[i]
                          /\ k = Len(a) \/ k = Len(b) \/ a[k + 1] # b[k + 1]
  <1> DEFINE T == {k \in Nat : k >= Len(a) \/ k >= Len(b) \/ a[k + 1] # b[k + 1]}
  <1>1. Len(a) \in Nat /\ Len(b) \in Nat
    BY LenProperties
  <1>2. Len(a) \in T /\ Len(b) \in T /\ T \in SUBSET Nat
    BY <1>1
  <1>3. PICK k \in T : \A y \in T : k <= y
    <2> HIDE DEF T
    <2>1. QED
      BY <1>2, Smallest
  <1>4. k \in Nat /\ k <= Len(a) /\ k <= Len(b)
    BY <1>2, <1>3
  <1>5. ASSUME NEW i \in 1..k PROVE a[i] = b[i]
    <2>1. i - 1 \in Nat /\ i - 1 < k /\ (i - 1) + 1 = i
      <3> HIDE DEF T
      <3>1. QED
        BY <1>4
    <2>2. i - 1 \notin T
      <3> HIDE DEF T
      <3>1. QED
        BY <1>3, <1>4, <2>1
    <2>3. QED
      BY <2>1, <2>2
  <1>6. k = Len(a) \/ k = Len(b) \/ a[k + 1] # b[k + 1]
    BY <1>1, <1>3, <1>4
  <1>7. QED
    BY <1>4, <1>5, <1>6

\* Before is a strict total order, as the order of strings is.
LEMMA BeforeIrreflexive ==
    ASSUME NEW a \in Seq(Nat) PROVE ~Before(a, a)
  <1> SUFFICES ASSUME NEW k \in Nat, k < Len(a), k = Len(a) \/ a[k + 1] < a[k + 1]
               PROVE  FALSE
    BY BeforeIs
  <1>1. Len(a) \in Nat /\ k + 1 \in 1..Len(a)
    BY LenProperties
  <1>2. a[k + 1] \in Nat
    BY <1>1, ElementOfSeq
  <1>3. QED
    BY <1>1, <1>2

\* Two names are ordered one way or the other.
LEMMA BeforeTotal ==
    ASSUME NEW a \in Seq(Nat), NEW b \in Seq(Nat), a # b
    PROVE  Before(a, b) \/ Before(b, a)
  <1>1. PICK k \in Nat : /\ k <= Len(a) /\ k <= Len(b)
                         /\ \A i \in 1..k : a[i] = b[i]
                         /\ k = Len(a) \/ k = Len(b) \/ a[k + 1] # b[k + 1]
    BY FirstDifference
  <1>2. Len(a) \in Nat /\ Len(b) \in Nat
    BY LenProperties
  <1>3. CASE k = Len(a) /\ k = Len(b)
    BY <1>1, <1>3, SeqEqual
  <1>4. CASE k = Len(a) /\ k # Len(b)
    <2>1. Before(a, b)
      BY <1>1, <1>2, <1>4, BeforeIs, SMTT(30)
    <2>2. QED
      BY <2>1
  <1>5. CASE k # Len(a) /\ k = Len(b)
    <2>1. k <= Len(b) /\ k < Len(a) /\ \A i \in 1..k : b[i] = a[i]
      BY <1>1, <1>2, <1>5
    <2>2. Before(b, a)
      BY <1>5, <2>1, BeforeIs
    <2>3. QED
      BY <2>2
  <1>6. CASE k # Len(a) /\ k # Len(b)
    <2>1. k < Len(a) /\ k < Len(b) /\ k + 1 \in 1..Len(a) /\ k + 1 \in 1..Len(b)
      BY <1>1, <1>2, <1>6
    <2>2. a[k + 1] \in Nat /\ b[k + 1] \in Nat
      BY <2>1, ElementOfSeq
    <2>3. a[k + 1] < b[k + 1] \/ b[k + 1] < a[k + 1]
      BY <1>1, <1>6, <2>2
    <2>4. CASE a[k + 1] < b[k + 1]
      <3>1. Before(a, b)
        BY <1>1, <2>1, <2>4, BeforeIs
      <3>2. QED
        BY <3>1
    <2>5. CASE b[k + 1] < a[k + 1]
      <3>1. Before(b, a)
        BY <1>1, <2>1, <2>5, BeforeIs
      <3>2. QED
        BY <3>1
    <2>6. QED
      BY <2>3, <2>4, <2>5
  <1>7. QED
    BY <1>3, <1>4, <1>5, <1>6

\* The order of names is transitive.
LEMMA BeforeTransitive ==
    ASSUME NEW a \in Seq(Nat), NEW b \in Seq(Nat), NEW c \in Seq(Nat), Before(a, b), Before(b, c)
    PROVE  Before(a, c)
  <1>1. PICK k \in Nat : /\ k <= Len(a) /\ k < Len(b)
                         /\ \A i \in 1..k : a[i] = b[i]
                         /\ k = Len(a) \/ a[k + 1] < b[k + 1]
    BY BeforeIs
  <1>2. PICK l \in Nat : /\ l <= Len(b) /\ l < Len(c)
                         /\ \A i \in 1..l : b[i] = c[i]
                         /\ l = Len(b) \/ b[l + 1] < c[l + 1]
    BY BeforeIs
  <1>3. Len(a) \in Nat /\ Len(b) \in Nat /\ Len(c) \in Nat
    BY LenProperties
  <1>4. CASE k < l
    <2>1. /\ k < Len(c) /\ k + 1 \in 1..l
          /\ \A i \in 1..k : i \in 1..l
      BY <1>2, <1>3, <1>4
    <2>2. /\ \A i \in 1..k : a[i] = c[i]
          /\ b[k + 1] = c[k + 1]
      BY <1>1, <1>2, <2>1
    <2>3. QED
      BY <1>1, <2>1, <2>2, BeforeIs
  <1>5. CASE k = l
    <2>1. b[k + 1] < c[k + 1] /\ \A i \in 1..k : a[i] = c[i]
      BY <1>1, <1>2, <1>3, <1>5
    <2>2. CASE k = Len(a)
      BY <1>1, <1>2, <1>5, <2>1, <2>2, BeforeIs
    <2>3. CASE k # Len(a)
      <3>1. k + 1 \in 1..Len(a) /\ k + 1 \in 1..Len(b) /\ k + 1 \in 1..Len(c)
        BY <1>1, <1>2, <1>3, <1>5, <2>3, SMTT(30)
      <3>2. a[k + 1] \in Nat /\ b[k + 1] \in Nat /\ c[k + 1] \in Nat
        BY <3>1, ElementOfSeq
      <3>3. a[k + 1] < c[k + 1]
        BY <1>1, <2>1, <2>3, <3>2, SMTT(30)
      <3>4. QED
        BY <1>1, <1>2, <1>5, <2>1, <3>3, BeforeIs
    <2>4. QED
      BY <2>2, <2>3
  <1>6. CASE l < k
    <2>1. /\ l <= Len(a) /\ l # Len(b) /\ l + 1 \in 1..k
          /\ \A i \in 1..l : i \in 1..k
      BY <1>1, <1>3, <1>6
    <2>2. /\ \A i \in 1..l : a[i] = c[i]
          /\ a[l + 1] < c[l + 1]
      BY <1>1, <1>2, <2>1
    <2>3. QED
      BY <1>2, <2>1, <2>2, BeforeIs
  <1>7. QED
    BY <1>4, <1>5, <1>6

\* The filter of service_match goes through the names in their order: there is a first one.
LEMMA FirstIs ==
    ASSUME NEW S \in SUBSET Names, S # {}
    PROVE  First(S) \in S /\ \A m \in S \ {First(S)} : Before(First(S), m)
  <1>1. \A n \in S : n \in Seq(Nat)
    BY BeamctlAssumption
  <1> DEFINE D(n) == {m \in S : Before(m, n)}
             F == {D(n) : n \in S}
  <1>2. IsFiniteSet(S)
    BY BeamctlAssumption, FS_Subset
  <1>3. F \subseteq FiniteSubsetsOf(S) /\ F # {}
    <2>1. ASSUME NEW n \in S PROVE D(n) \in FiniteSubsetsOf(S)
      <3>1. D(n) \in SUBSET S
        OBVIOUS
      <3> HIDE DEF D
      <3>2. IsFiniteSet(D(n))
        BY <1>2, <3>1, FS_Subset
      <3>3. QED
        BY <3>1, <3>2 DEF FiniteSubsetsOf
    <2> HIDE DEF D
    <2>2. QED
      BY <2>1
  <1>4. IsWellFoundedOn(StrictSubsetOrdering(S), FiniteSubsetsOf(S))
    BY FS_StrictSubsetOrderingWellFounded
  <1>5. PICK d \in F : \A e \in F : ~(<<e, d>> \in StrictSubsetOrdering(S))
    <2> HIDE DEF F
    <2>1. QED
      BY <1>3, <1>4, WFMin
  <1>6. PICK n \in S : d = D(n)
    OBVIOUS
  <1>7. ASSUME NEW m \in S \ {n} PROVE Before(n, m)
    <2> SUFFICES ASSUME ~Before(n, m) PROVE FALSE
      OBVIOUS
    <2>1. Before(m, n)
      BY <1>1, BeforeTotal
    <2>2. D(m) \subseteq D(n)
      BY <1>1, <2>1, BeforeTransitive
    <2>3. m \in D(n) /\ m \notin D(m)
      BY <1>1, <2>1, BeforeIrreflexive
    <2>4. D(m) \in F /\ D(m) \in SUBSET S /\ D(n) \in SUBSET S /\ D(m) # D(n)
      BY <2>3
    <2> HIDE DEF D
    <2>5. <<D(m), D(n)>> \in StrictSubsetOrdering(S)
      BY <2>2, <2>4 DEF StrictSubsetOrdering
    <2>6. QED
      BY <1>5, <1>6, <2>4, <2>5
  <1>8. \E x \in S : \A m \in S \ {x} : Before(x, m)
    BY <1>7
  <1>9. QED
    BY <1>8 DEF First

-----------------------------------------------------------------------------
(* Matching.                                                               *)

\* What IsPrefix compares, place by place.
LEMMA IsPrefixIs ==
    ASSUME NEW a \in Seq(Nat), NEW b \in Seq(Nat)
    PROVE  IsPrefix(a, b) <=> Len(a) <= Len(b) /\ \A i \in 1..Len(a) : a[i] = b[i]
  <1>1. Len(a) \in Nat /\ Len(b) \in Nat
    BY LenProperties
  <1> SUFFICES ASSUME Len(a) <= Len(b)
               PROVE  SubSeq(a, 1, Len(a)) = SubSeq(b, 1, Len(a))
                        <=> \A i \in 1..Len(a) : a[i] = b[i]
    BY DEF IsPrefix
  <1> DEFINE p == SubSeq(a, 1, Len(a))
             q == SubSeq(b, 1, Len(a))
  <1>2. \A i \in 1..Len(a) : a[i] \in Nat /\ b[i] \in Nat
    BY <1>1, ElementOfSeq
  <1>3. /\ p \in Seq(Nat) /\ Len(p) = Len(a)
        /\ \A i \in 1..Len(a) : p[i] = a[i]
    <2>1. /\ p \in Seq(Nat) /\ Len(p) = IF 1 <= Len(a) THEN Len(a) - 1 + 1 ELSE 0
          /\ \A i \in 1..Len(a) - 1 + 1 : p[i] = a[1 + i - 1]
      BY <1>1, <1>2, SubSeqProperties
    <2>2. \A i \in 1..Len(a) : i \in 1..Len(a) - 1 + 1 /\ 1 + i - 1 = i
      BY <1>1
    <2> HIDE DEF p
    <2>3. \A i \in 1..Len(a) : p[i] = a[i]
      BY <2>1, <2>2
    <2>4. Len(p) = Len(a)
      BY <1>1, <2>1
    <2>5. QED
      BY <2>1, <2>3, <2>4
  <1>4. /\ q \in Seq(Nat) /\ Len(q) = Len(a)
        /\ \A i \in 1..Len(a) : q[i] = b[i]
    <2>1. /\ q \in Seq(Nat) /\ Len(q) = IF 1 <= Len(a) THEN Len(a) - 1 + 1 ELSE 0
          /\ \A i \in 1..Len(a) - 1 + 1 : q[i] = b[1 + i - 1]
      BY <1>1, <1>2, SubSeqProperties
    <2>2. \A i \in 1..Len(a) : i \in 1..Len(a) - 1 + 1 /\ 1 + i - 1 = i
      BY <1>1
    <2> HIDE DEF q
    <2>3. \A i \in 1..Len(a) : q[i] = b[i]
      BY <2>1, <2>2
    <2>4. Len(q) = Len(a)
      BY <1>1, <2>1
    <2>5. QED
      BY <2>1, <2>3, <2>4
  <1> HIDE DEF p, q
  <1>5. p = q => \A i \in 1..Len(a) : a[i] = b[i]
    BY <1>3, <1>4
  <1>6. (\A i \in 1..Len(a) : a[i] = b[i]) => p = q
    BY <1>3, <1>4, SeqEqual
  <1>7. QED
    BY <1>5, <1>6 DEF p, q

\* A name with the prefix is not split off, and comes before every name after the prefix that
\* lacks it.
LEMMA PrefixOrder ==
    ASSUME NEW arg \in Seq(Nat), NEW n \in Seq(Nat), IsPrefix(arg, n)
    PROVE  /\ ~Before(n, arg)
           /\ \A m \in Seq(Nat) : ~Before(m, arg) => IsPrefix(arg, m) \/ Before(n, m)
  <1>1. Len(arg) \in Nat /\ Len(n) \in Nat
    BY LenProperties
  <1>2. Len(arg) <= Len(n) /\ \A i \in 1..Len(arg) : arg[i] = n[i]
    BY IsPrefixIs
  <1>3. ASSUME Before(n, arg) PROVE FALSE
    <2>1. PICK k \in Nat : /\ k <= Len(n) /\ k < Len(arg)
                           /\ k = Len(n) \/ n[k + 1] < arg[k + 1]
      BY <1>3, BeforeIs
    <2>2. k # Len(n) /\ k + 1 \in 1..Len(arg)
      BY <1>1, <1>2, <2>1
    <2>3. arg[k + 1] \in Nat /\ arg[k + 1] = n[k + 1]
      BY <1>2, <2>2, ElementOfSeq
    <2>4. QED
      BY <2>1, <2>2, <2>3
  <1>4. ASSUME NEW m \in Seq(Nat), ~Before(m, arg), ~IsPrefix(arg, m)
        PROVE  Before(n, m)
    <2>1. Len(m) \in Nat
      BY LenProperties
    <2>2. PICK k \in Nat : /\ k <= Len(arg) /\ k <= Len(m)
                           /\ \A i \in 1..k : arg[i] = m[i]
                           /\ k = Len(arg) \/ k = Len(m) \/ arg[k + 1] # m[k + 1]
      BY FirstDifference
    <2>3. k # Len(arg)
      BY <1>1, <1>4, <2>1, <2>2, IsPrefixIs
    <2>4. k # Len(m)
      <3> SUFFICES ASSUME k = Len(m) PROVE FALSE
        OBVIOUS
      <3>1. k <= Len(m) /\ k < Len(arg) /\ \A i \in 1..k : m[i] = arg[i]
        BY <1>1, <2>1, <2>2, <2>3
      <3>2. Before(m, arg)
        BY <3>1, BeforeIs
      <3>3. QED
        BY <1>4, <3>2
    <2>5. /\ k < Len(arg) /\ k < Len(m) /\ k <= Len(n)
          /\ k + 1 \in 1..Len(arg) /\ k + 1 \in 1..Len(m)
      BY <1>1, <1>2, <2>1, <2>2, <2>3, <2>4, SMTT(30)
    <2>6. arg[k + 1] \in Nat /\ m[k + 1] \in Nat /\ arg[k + 1] = n[k + 1]
      BY <1>2, <2>5, ElementOfSeq
    <2>7. arg[k + 1] # m[k + 1]
      BY <2>2, <2>3, <2>4
    <2>8. ~(m[k + 1] < arg[k + 1])
      <3> SUFFICES ASSUME m[k + 1] < arg[k + 1] PROVE FALSE
        OBVIOUS
      <3>1. k <= Len(m) /\ k < Len(arg) /\ \A i \in 1..k : m[i] = arg[i]
        BY <2>2, <2>5
      <3>2. Before(m, arg)
        BY <3>1, BeforeIs
      <3>3. QED
        BY <1>4, <3>2
    <2>9. n[k + 1] < m[k + 1]
      BY <2>6, <2>7, <2>8
    <2>10. \A i \in 1..k : n[i] = m[i]
      <3>1. \A i \in 1..k : i \in 1..Len(arg)
        BY <1>1, <2>5
      <3>2. QED
        BY <1>2, <2>2, <3>1
    <2>11. QED
      BY <2>5, <2>9, <2>10, BeforeIs
  <1>5. QED
    BY <1>3, <1>4

\* prefix_match: the only listed name that starts with the argument, unless that is the
\* bootstrap service; else the argument.
LEMMA PrefixMatchIs ==
    ASSUME NEW names \in SUBSET Names, NEW arg \in Seq(Nat)
    PROVE  \/ /\ PrefixMatch(names, arg) \in names \ {Bootstrap}
              /\ {n \in names : IsPrefix(arg, n)} = {PrefixMatch(names, arg)}
           \/ /\ PrefixMatch(names, arg) = arg
              /\ \A n \in names \ {Bootstrap} : {m \in names : IsPrefix(arg, m)} # {n}
  <1> DEFINE rest == {n \in names : ~Before(n, arg)}
             found == {n \in rest : \A m \in rest : IsPrefix(arg, m) \/ Before(n, m)}
  <1>1. names \subseteq Seq(Nat)
    BY BeamctlAssumption
  <1>2. found = {n \in names : IsPrefix(arg, n)}
    <2>1. ASSUME NEW n \in found PROVE n \in names /\ IsPrefix(arg, n)
      BY <1>1, BeforeIrreflexive
    <2>2. ASSUME NEW n \in names, IsPrefix(arg, n) PROVE n \in found
      <3>1. ~Before(n, arg)
        BY <1>1, <2>2, PrefixOrder
      <3>2. \A m \in rest : IsPrefix(arg, m) \/ Before(n, m)
        BY <1>1, <2>2, PrefixOrder
      <3>3. QED
        BY <3>1, <3>2
    <2> HIDE DEF found
    <2>3. QED
      BY <2>1, <2>2
  <1>3. PrefixMatch(names, arg)
          = IF Cardinality(found) = 1 /\ First(found) # Bootstrap THEN First(found) ELSE arg
    BY DEF PrefixMatch
  <1>4. found \subseteq names
    OBVIOUS
  <1> HIDE DEF found
  <1>5. ASSUME Cardinality(found) = 1 PROVE First(found) \in names /\ found = {First(found)}
    <2>1. IsFiniteSet(found)
      BY <1>4, BeamctlAssumption, FS_Subset
    <2>2. PICK x : found = {x}
      BY <1>5, <2>1, FS_Singleton
    <2>3. First(found) \in found
      BY <1>4, <2>2, FirstIs
    <2>4. QED
      BY <1>4, <2>2, <2>3
  <1>6. CASE Cardinality(found) = 1 /\ First(found) # Bootstrap
    BY <1>2, <1>3, <1>5, <1>6
  <1>7. CASE ~(Cardinality(found) = 1 /\ First(found) # Bootstrap)
    <2>1. ASSUME NEW n \in names \ {Bootstrap}, found = {n} PROVE FALSE
      <3>1. Cardinality(found) = 1
        BY <2>1, FS_Singleton
      <3>2. First(found) = n
        BY <1>5, <2>1, <3>1
      <3>3. QED
        BY <1>7, <2>1, <3>1, <3>2
    <2>2. PrefixMatch(names, arg) = arg
      BY <1>3, <1>7
    <2>3. QED
      BY <1>2, <2>1, <2>2
  <1>8. QED
    BY <1>6, <1>7

\* keys_match compares sequences of values, yet it tells whether the service has all the
\* selected labels: with a label missing one sequence is shorter, with none missing each value
\* stands against its own.
LEMMA KeysMatchIs ==
    ASSUME NEW sel \in Selectors, NEW labels
    PROVE  KeysMatch(sel, labels) <=> Selected(sel, labels)
  <1> DEFINE D == DOMAIN sel
             F == DOMAIN sel \cap DOMAIN labels
  <1>1. D \in SUBSET Nat /\ IsFiniteSet(D) /\ F \in SUBSET D
    BY BeamctlAssumption
  <1>2. Cardinality(F) = Cardinality(D) <=> F = D
    BY <1>1, FS_Subset
  <1>3. KeysMatch(sel, labels) <=>
          F = D /\ \A k \in F, j \in D : Position(k, F) = Position(j, D) => labels[k] = sel[j]
    BY <1>2 DEF KeysMatch
  <1>4. ASSUME NEW k \in D, NEW j \in D, j < k PROVE Position(j, D) < Position(k, D)
    <2> DEFINE A == {i \in D : i < j}
               B == {i \in D : i < k}
    <2>1. /\ A \in SUBSET B /\ j \in B /\ j \notin A /\ A # B
          /\ B \in SUBSET D
      BY <1>1, <1>4
    <2> HIDE DEF A, B
    <2>2. IsFiniteSet(B) /\ IsFiniteSet(A)
      BY <1>1, <2>1, FS_Subset
    <2>3. Cardinality(A) <= Cardinality(B) /\ Cardinality(A) # Cardinality(B)
      BY <2>1, <2>2, FS_Subset
    <2>4. Cardinality(A) \in Nat /\ Cardinality(B) \in Nat
      BY <2>2, FS_CardinalityType
    <2>5. Cardinality(A) < Cardinality(B)
      BY <2>3, <2>4
    <2>6. QED
      BY <2>5 DEF Position, A, B
  <1>5. ASSUME NEW k \in D PROVE Position(k, D) \in Nat
    <2> DEFINE A == {i \in D : i < k}
    <2>1. A \in SUBSET D
      OBVIOUS
    <2> HIDE DEF A
    <2>2. IsFiniteSet(A)
      BY <1>1, <2>1, FS_Subset
    <2>3. Cardinality(A) \in Nat
      BY <2>2, FS_CardinalityType
    <2>4. QED
      BY <2>3 DEF Position, A
  <1>6. ASSUME NEW k \in D, NEW j \in D, Position(k, D) = Position(j, D) PROVE k = j
    <2>1. k \in Nat /\ j \in Nat
      BY <1>1
    <2>2. ~(j < k) /\ ~(k < j)
      BY <1>4, <1>5, <1>6
    <2>3. QED
      BY <2>1, <2>2
  <1>7. Selected(sel, labels) <=> F = D /\ \A k \in D : labels[k] = sel[k]
    BY DEF Selected
  <1> HIDE DEF D, F
  <1>8. ASSUME F = D
        PROVE  (\A k \in F, j \in D : Position(k, F) = Position(j, D) => labels[k] = sel[j])
                 <=> \A k \in D : labels[k] = sel[k]
    BY <1>6, <1>8
  <1>9. QED
    BY <1>3, <1>7, <1>8

-----------------------------------------------------------------------------
(* Commands and services.                                                  *)

\* What a command line can say.
LEMMA CommandFacts ==
    /\ \A c \in Commands :
         /\ "selector" \in DOMAIN c => c.op \in Ops /\ c.selector \in Selectors
         /\ "selector" \notin DOMAIN c =>
              /\ c.op \in Ops \cup {"Attach", "Start"}
              /\ c.name \in Names \cup Arguments
              /\ c.op = "Start" => c.name \in NewNames
    /\ "Start" \notin Ops /\ "Attach" \notin Ops
    /\ Names \cup Arguments \subseteq Seq(Nat)
    /\ Bootstrap \in Names
  <1>1. "Start" \notin Ops /\ "Attach" \notin Ops
    BY BeamctlAssumption DEF Requestable
  <1>2. ASSUME NEW op, NEW a
        PROVE  /\ "selector" \notin DOMAIN ByName(op, a)
               /\ ByName(op, a).op = op /\ ByName(op, a).name = a
    BY DEF ByName
  <1>3. ASSUME NEW op, NEW a
        PROVE  /\ "selector" \in DOMAIN BySelector(op, a)
               /\ BySelector(op, a).op = op /\ BySelector(op, a).selector = a
    BY DEF BySelector
  <1>4. ASSUME NEW c \in Commands
        PROVE  \/ \E op \in Ops \cup {"Attach"}, a \in Arguments : c = ByName(op, a)
               \/ \E op \in Ops, a \in Selectors : c = BySelector(op, a)
               \/ \E a \in NewNames : c = ByName("Start", a)
    BY DEF Commands
  <1>5. ASSUME NEW c \in Commands
        PROVE  /\ "selector" \in DOMAIN c => c.op \in Ops /\ c.selector \in Selectors
               /\ "selector" \notin DOMAIN c =>
                    /\ c.op \in Ops \cup {"Attach", "Start"}
                    /\ c.name \in Names \cup Arguments
                    /\ c.op = "Start" => c.name \in NewNames
    <2>1. CASE \E op \in Ops \cup {"Attach"}, a \in Arguments : c = ByName(op, a)
      BY <1>1, <1>2, <2>1
    <2>2. CASE \E op \in Ops, a \in Selectors : c = BySelector(op, a)
      BY <1>3, <2>2
    <2>3. CASE \E a \in NewNames : c = ByName("Start", a)
      BY <1>2, <2>3, BeamctlAssumption
    <2>4. QED
      BY <1>4, <2>1, <2>2, <2>3
  <1>6. QED
    BY <1>1, <1>5, BeamctlAssumption

\* What a request arrives as.
LEMMA AskedFacts ==
    ASSUME NEW op \in Operations, NEW n \in Names \cup Arguments
    PROVE  /\ Plain(n) => Asked[op][n] = {[op |-> op, name |-> n]}
           /\ \A r \in Asked[op][n] : r.op \in Operations /\ (r.op = "Start" => op = "Start")
  <1> DEFINE path == Normalised(Segments(PathText(op, n)))
  <1>1. Asked[op][n] = IF Plain(n) THEN {[op |-> op, name |-> n]} ELSE Routed(op, path)
    BY DEF Asked
  <1> HIDE DEF path
  <1>2. \A r \in Routed(op, path) : r.op \in Operations /\ (r.op = "Start" => op = "Start")
    BY DEF Routed
  <1>3. QED
    BY <1>1, <1>2

\* What arrives of the request in hand.
LEMMA ArrivedFacts ==
    ASSUME AttachTypeOK, ControlInv, pc # "list", NEW r \in Arrived
    PROVE  /\ r.op \in Operations
           /\ r.op = "Start" => pc = "create" /\ r.name \in Names
           /\ Plain(target) => /\ r.name = target
                               /\ r.op # "Show" => r = [op |-> cmd.op, name |-> target]
                               /\ r.op \notin {"Start", "Show"} => pc = "act"
  <1>1. Operation \in Operations /\ target \in Names \cup Arguments
    BY BeamctlAssumption DEF Operation, Operations, AttachTypeOK, ControlInv
  <1>2. /\ r \in Asked[Operation][target]
        /\ r.op \in Operations /\ (r.op = "Start" => Operation = "Start")
        /\ Plain(target) => r = [op |-> Operation, name |-> target]
    BY <1>1, AskedFacts DEF Arrived
  <1>3. Operation = "Start" => pc = "create"
    BY BeamctlAssumption DEF Operation, ControlInv, Requestable
  <1>4. r.op = "Start" => r.name \in Names
    <2>1. pc = "create" => target \in NewNames
      BY DEF ControlInv
    <2>2. QED
      BY <1>2, <1>3, <2>1, NamesAssumption DEF Operation
  <1>5. /\ pc = "create" => Operation = "Start" /\ cmd.op = "Start"
        /\ pc = "act" => Operation = cmd.op
        /\ pc \notin {"create", "act"} => Operation = "Show"
    BY DEF Operation, ControlInv
  <1>6. Plain(target) => r.op = Operation /\ r.name = target
    BY <1>2
  <1>7. QED
    BY <1>2, <1>3, <1>4, <1>5, <1>6

\* What can become of a service: within an incarnation it keeps its labels and, once it is
\* gone, stays away; a new incarnation has a higher number.
Evolves(s, t) ==
    /\ s.gen <= t.gen
    /\ s.gen = t.gen /\ t.state # "absent" => s.state # "absent" /\ s.labels = t.labels

TableEvolves ==
    /\ table' \in [Names -> Service]
    /\ \A n \in Names : Evolves(table[n], table'[n])

\* The fields of a service, and the changes that can happen to one.
LEMMA ServiceFacts ==
    ASSUME NEW s \in Service
    PROVE  /\ s.gen \in Nat /\ s.run \in Nat /\ s.labels \in LabelSets
           /\ s.state \in States /\ s.mine \in BOOLEAN
           /\ Evolves(s, s)
           /\ Gone(s) \in Service /\ Evolves(s, Gone(s))
           /\ s.state # "absent" => Pruned(s) \in Service /\ Evolves(s, Pruned(s))
           /\ \A st \in States \ {"absent"} :
                s.state # "absent" => /\ [s EXCEPT !.state = st] \in Service
                                      /\ Evolves(s, [s EXCEPT !.state = st])
           /\ s.state # "absent" => /\ [s EXCEPT !.state = "up", !.run = @ + 1] \in Service
                                    /\ Evolves(s, [s EXCEPT !.state = "up", !.run = @ + 1])
           /\ \A l \in LabelSets, m \in BOOLEAN, st \in States :
                /\ Incarnation(s, l, m) \in Service
                /\ Evolves(s, Incarnation(s, l, m))
                /\ [Incarnation(s, l, m) EXCEPT !.state = st] \in Service
                /\ Evolves(s, [Incarnation(s, l, m) EXCEPT !.state = st])
  <1>1. /\ s.gen \in Nat /\ s.run \in Nat /\ s.labels \in LabelSets
        /\ s.state \in States /\ s.mine \in BOOLEAN
        /\ <<>> \in LabelSets
        /\ s = [state |-> s.state, gen |-> s.gen, run |-> s.run, labels |-> s.labels,
                mine |-> s.mine]
    BY BeamctlAssumption DEF Service
  <1>2. Evolves(s, s)
    BY <1>1 DEF Evolves
  <1>3. Gone(s) \in Service /\ Evolves(s, Gone(s))
    <2>1. Gone(s) = [state |-> "absent", gen |-> s.gen, run |-> 0, labels |-> <<>>, mine |-> TRUE]
      <3> DEFINE e == <<>>
      <3>1. NoService = [state |-> "absent", gen |-> 0, run |-> 0, labels |-> e, mine |-> TRUE]
        BY DEF NoService
      <3> HIDE DEF e
      <3> DEFINE g == s.gen
      <3>2. Gone(s) = [NoService EXCEPT !.gen = g]
        BY DEF Gone
      <3> HIDE DEF g
      <3>3. Gone(s) = [state |-> "absent", gen |-> g, run |-> 0, labels |-> e, mine |-> TRUE]
        BY <3>1, <3>2
      <3>4. QED
        BY <3>3 DEF e, g
    <2>2. QED
      BY <1>1, <2>1 DEF Service, States, Evolves
  <1>4. ASSUME NEW st \in States \ {"absent"}, s.state # "absent"
        PROVE  /\ [s EXCEPT !.state = st] \in Service
               /\ Evolves(s, [s EXCEPT !.state = st])
    BY <1>1, <1>4 DEF Service, Evolves
  <1>5. ASSUME s.state # "absent"
        PROVE  Pruned(s) \in Service /\ Evolves(s, Pruned(s))
    <2>1. "leaving" \in States \ {"absent"}
      BY DEF States
    <2>2. QED
      BY <1>3, <1>4, <1>5, <2>1 DEF Pruned
  <1>6. ASSUME s.state # "absent"
        PROVE  /\ [s EXCEPT !.state = "up", !.run = @ + 1] \in Service
               /\ Evolves(s, [s EXCEPT !.state = "up", !.run = @ + 1])
    <2> DEFINE r == s.run + 1
    <2>1. r \in Nat
      BY <1>1
    <2> HIDE DEF r
    <2> DEFINE t == [s EXCEPT !.state = "up", !.run = r]
    <2>2. t \in Service
      BY <2>1 DEF Service, States
    <2>3. t.gen = s.gen /\ t.labels = s.labels
      BY DEF Service
    <2> HIDE DEF t
    <2>4. Evolves(s, t)
      BY <1>1, <1>6, <2>3 DEF Evolves
    <2>5. QED
      BY <2>2, <2>4 DEF r, t
  <1>7. ASSUME NEW l \in LabelSets, NEW m \in BOOLEAN, NEW st \in States
        PROVE  /\ Incarnation(s, l, m) \in Service
               /\ Evolves(s, Incarnation(s, l, m))
               /\ [Incarnation(s, l, m) EXCEPT !.state = st] \in Service
               /\ Evolves(s, [Incarnation(s, l, m) EXCEPT !.state = st])
    <2>1. Incarnation(s, l, m)
            = [state |-> "up", gen |-> s.gen + 1, run |-> 1, labels |-> l, mine |-> m]
      <3> DEFINE g == s.gen + 1
      <3>1. Incarnation(s, l, m)
              = [s EXCEPT !.state = "up", !.gen = g, !.run = 1, !.labels = l, !.mine = m]
        BY DEF Incarnation
      <3> HIDE DEF g
      <3>2. Incarnation(s, l, m) = [state |-> "up", gen |-> g, run |-> 1, labels |-> l, mine |-> m]
        BY <1>1, <3>1
      <3>3. QED
        BY <3>2 DEF g
    <2>2. [Incarnation(s, l, m) EXCEPT !.state = st]
            = [state |-> st, gen |-> s.gen + 1, run |-> 1, labels |-> l, mine |-> m]
      BY <2>1
    <2>3. s.gen + 1 \in Nat /\ s.gen <= s.gen + 1 /\ s.gen # s.gen + 1
      BY <1>1
    <2>4. QED
      BY <1>1, <2>1, <2>2, <2>3 DEF Service, Evolves, States
  <1>8. QED
    BY <1>1, <1>2, <1>3, <1>4, <1>5, <1>6, <1>7

\* One service of the table changes.
LEMMA OneEvolves ==
    ASSUME table \in [Names -> Service], NEW n \in Names, NEW t \in Service,
           Evolves(table[n], t), table' = [table EXCEPT ![n] = t]
    PROVE  TableEvolves
  <1>1. ASSUME NEW m \in Names PROVE Evolves(table[m], table'[m])
    <2>1. table[m] \in Service
      OBVIOUS
    <2>2. table'[m] = IF m = n THEN t ELSE table[m]
      OBVIOUS
    <2>3. QED
      BY <2>1, <2>2, ServiceFacts
  <1>2. QED
    BY <1>1 DEF TableEvolves

\* A table that stays has evolved.
LEMMA NoneEvolves ==
    ASSUME table \in [Names -> Service], table' = table
    PROVE  TableEvolves
  BY ServiceFacts DEF TableEvolves

\* The requests that change the table.
LEMMA ExecutedEvolves ==
    ASSUME table \in [Names -> Service], NEW r, PermittedMut(r.name), Executed(r)
    PROVE  TableEvolves /\ r.name \in Names /\ r.name # Bootstrap /\ table[r.name].state # "absent"
  <1> DEFINE n == r.name
  <1>1. n \in Names /\ n # Bootstrap /\ table[n].state # "absent" /\ table[n] \in Service
    BY DEF PermittedMut, Permitted, Known
  <1>2. \/ table' = [table EXCEPT ![n] = Pruned(table[n])]
        \/ table' = [table EXCEPT ![n] = [table[n] EXCEPT !.state = "up", !.run = @ + 1]]
        \/ table' = table
    BY <1>1 DEF Executed
  <1>3. CASE table' = [table EXCEPT ![n] = Pruned(table[n])]
    <2>1. Pruned(table[n]) \in Service /\ Evolves(table[n], Pruned(table[n]))
      BY <1>1, ServiceFacts
    <2>2. QED
      BY <1>1, <1>3, <2>1, OneEvolves
  <1>4. CASE table' = [table EXCEPT ![n] = [table[n] EXCEPT !.state = "up", !.run = @ + 1]]
    <2> DEFINE t == [table[n] EXCEPT !.state = "up", !.run = @ + 1]
    <2>1. t \in Service /\ Evolves(table[n], t)
      BY <1>1, ServiceFacts
    <2> HIDE DEF t
    <2>2. table' = [table EXCEPT ![n] = t]
      BY <1>4 DEF t
    <2>3. QED
      BY <1>1, <2>1, <2>2, OneEvolves
  <1>5. CASE table' = table
    BY <1>1, <1>5, NoneEvolves
  <1>6. QED
    BY <1>2, <1>3, <1>4, <1>5

\* create_service, and start_service after it.
LEMMA CreatesEvolves ==
    ASSUME table \in [Names -> Service], NEW n \in Names, Creates(n)
    PROVE  TableEvolves
  <1>1. table[n] \in Service
    OBVIOUS
  <1>2. CASE table' = table
    BY <1>2, NoneEvolves
  <1>3. CASE table' # table
    <2>1. PICK l \in Labels, s \in {"up", "ended"} :
            table' = [table EXCEPT ![n] = [Incarnation(table[n], l, TRUE) EXCEPT !.state = s]]
      BY <1>3 DEF Creates
    <2>2. l \in LabelSets /\ s \in States /\ TRUE \in BOOLEAN
      BY BeamctlAssumption DEF Labels, States
    <2>3. QED
      BY <1>1, <2>1, <2>2, ServiceFacts, OneEvolves, ZenonT(60)
  <1>4. QED
    BY <1>2, <1>3

\* Services and other clients.
LEMMA WorldEvolves ==
    ASSUME AttachTypeOK, WorldStep
    PROVE  TableEvolves /\ changes' \in 0..MaxChanges /\ UNCHANGED ctlVars
  <1>1. table \in [Names -> Service] /\ changes \in 0..MaxChanges /\ MaxChanges \in Nat
    BY BeamctlAssumption DEF AttachTypeOK
  <1>2. PICK n \in Names :
          OthersCreate(n) \/ OthersPrune(n) \/ OthersRestart(n) \/ Dies(n) \/ Reaped(n)
    BY DEF WorldStep, InHand, Concerned
  <1>3. table[n] \in Service
    BY <1>1
  <1>4. CASE OthersCreate(n)
    <2>1. PICK l \in Labels, m \in BOOLEAN :
            table' = [table EXCEPT ![n] = Incarnation(table[n], l, m)]
      BY <1>4 DEF OthersCreate
    <2>2. l \in LabelSets /\ "up" \in States
      BY BeamctlAssumption DEF Labels, States
    <2>3. TableEvolves
      BY <1>1, <1>3, <2>1, <2>2, ServiceFacts, OneEvolves
    <2>4. QED
      BY <1>1, <1>4, <2>3 DEF OthersCreate
  <1>5. CASE OthersPrune(n)
    <2>1. table' = [table EXCEPT ![n] = Pruned(table[n])] /\ table[n].state # "absent"
      BY <1>5 DEF OthersPrune
    <2>2. TableEvolves
      BY <1>1, <1>3, <2>1, ServiceFacts, OneEvolves
    <2>3. QED
      BY <1>1, <1>5, <2>2 DEF OthersPrune
  <1>6. CASE OthersRestart(n)
    <2>1. /\ table' = [table EXCEPT ![n] = [table[n] EXCEPT !.state = "up", !.run = @ + 1]]
          /\ table[n].state # "absent"
      BY <1>1, <1>6 DEF OthersRestart
    <2>2. TableEvolves
      <3> DEFINE t == [table[n] EXCEPT !.state = "up", !.run = @ + 1]
      <3>1. t \in Service /\ Evolves(table[n], t)
        BY <1>3, <2>1, ServiceFacts
      <3>2. table' = [table EXCEPT ![n] = t]
        BY <2>1
      <3> HIDE DEF t
      <3>3. QED
        BY <1>1, <3>1, <3>2, OneEvolves
    <2>3. QED
      BY <1>1, <1>6, <2>2 DEF OthersRestart
  <1>7. CASE Dies(n) \/ Reaped(n)
    <2>1. \/ table' = [table EXCEPT ![n] = Gone(table[n])]
          \/ /\ table[n].state # "absent"
             /\ \E st \in {"ended", "dead"} :
                  table' = [table EXCEPT ![n] = [table[n] EXCEPT !.state = st]]
      BY <1>1, <1>7 DEF Dies, Reaped
    <2>2. {"ended", "dead"} \subseteq States \ {"absent"}
      BY DEF States
    <2>3. TableEvolves
      BY <1>1, <1>3, <2>1, <2>2, ServiceFacts, OneEvolves
    <2>4. QED
      BY <1>1, <1>7, <2>3 DEF Dies, Reaped
  <1>8. QED
    BY <1>2, <1>4, <1>5, <1>6, <1>7

-----------------------------------------------------------------------------
(* What beamctl does to services: one lemma per step.                      *)

\* The services of a selection that lie behind the one in hand, and those of them that should
\* have been touched.
Behind == listed \ (todo \cup IF pc = "next" \/ exit = "ok" THEN {} ELSE {target})
Due(n) ==
    /\ Plain(n)
    /\ table[n].state # "absent"
    /\ table[n].gen = gens[n]
    /\ Selected(cmd.selector, table[n].labels)

\* SelectionIsComplete, in terms of what the list is Behind.
LEMMA SelectionIs ==
    SelectionIsComplete <=>
      (Selecting /\ pc # "list" =>
         /\ todo \cap Touched = {}
         /\ \A n \in Behind : Due(n) => n \in Touched)
  BY DEF SelectionIsComplete, Behind, Due

\* What was executed is as it was.
LEMMA HitsStay ==
    ASSUME HitsAreIntended, cmd' = cmd, hits' = hits, listed' = listed \/ hits = <<>>
    PROVE  HitsAreIntended' /\ Touched' = Touched /\ (Selecting' <=> Selecting)
  <1>1. Touched' = Touched /\ (Selecting' <=> Selecting)
    BY DEF Touched, Selecting
  <1>2. CASE hits = <<>>
    <2>1. DOMAIN hits' = {}
      BY <1>2
    <2>2. QED
      BY <1>1, <2>1 DEF HitsAreIntended
  <1>3. CASE listed' = listed
    BY <1>1, <1>3 DEF HitsAreIntended, Meant
  <1>4. QED
    BY <1>1, <1>2, <1>3

\* Nothing happens to beamctl.
LEMMA BeamctlStutters == CommandInv /\ UNCHANGED beamctlVars => CommandInv'
  <1> SUFFICES ASSUME CommandInv, UNCHANGED beamctlVars PROVE CommandInv'
    OBVIOUS
  <1> USE DEF beamctlVars
  <1>1. HitsAreIntended' /\ Touched' = Touched /\ (Selecting' <=> Selecting)
    BY HitsStay DEF CommandInv
  <1>2. ControlInv'
    BY <1>1 DEF CommandInv, ControlInv
  <1>3. TargetInv' /\ LateInv'
    BY <1>1 DEF CommandInv, TargetInv, LateInv, ShownInv, Acting, Pending, Meant
  <1>4. GensInv'
    BY DEF CommandInv, GensInv
  <1>5. SelectionIsComplete'
    BY <1>1 DEF CommandInv, SelectionIsComplete
  <1>6. QED
    BY <1>1, <1>2, <1>3, <1>4, <1>5 DEF CommandInv

\* attach: one service in hand, on which no command is executed.
LEMMA RelayKeeps ==
    ASSUME CommandInv, ~Selecting, late = {}, hits = <<>>, pc \notin {"idle", "list", "done"},
           UNCHANGED keptVars,
           pc' \in {"getpty", "explain", "notify", "relay", "signal", "detach", "report", "done"}
    PROVE  CommandInv'
  <1> USE DEF keptVars, tableVars
  <1>1. HitsAreIntended' /\ Touched' = Touched /\ (Selecting' <=> Selecting)
    BY HitsStay DEF CommandInv
  <1>2. ControlInv'
    BY <1>1 DEF CommandInv, ControlInv
  <1>3. TargetInv' /\ LateInv'
    <2>1. Touched = {} /\ todo = {} /\ Meant(target)
      BY DEF CommandInv, ControlInv, TargetInv, Touched
    <2>2. QED
      BY <1>1, <2>1 DEF TargetInv, LateInv, Acting, Pending, Meant
  <1>4. GensInv'
    BY DEF CommandInv, GensInv
  <1>5. SelectionIsComplete'
    BY <1>1 DEF SelectionIsComplete
  <1>6. QED
    BY <1>1, <1>2, <1>3, <1>4, <1>5 DEF CommandInv

\* A service that evolves is not due unless it was before.
LEMMA DueBefore ==
    ASSUME AttachTypeOK, GensInv, TableEvolves, cmd' = cmd, gens' = gens
    PROVE  GensInv' /\ \A n \in Names : Due(n)' => Due(n)
  <1>1. ASSUME NEW n \in Names
        PROVE  gens'[n] <= table'[n].gen /\ (Due(n)' => Due(n))
    <2>1. /\ table[n] \in Service /\ table'[n] \in Service /\ gens[n] \in Nat
          /\ gens[n] <= table[n].gen /\ Evolves(table[n], table'[n])
      BY DEF AttachTypeOK, GensInv, TableEvolves
    <2>2. table[n].gen \in Nat /\ table'[n].gen \in Nat
      BY <2>1, ServiceFacts
    <2>3. table[n].gen <= table'[n].gen
      BY <2>1 DEF Evolves
    <2>4. gens'[n] <= table'[n].gen
      BY <2>1, <2>2, <2>3
    <2>5. ASSUME Due(n)' PROVE Due(n)
      <3>1. /\ table'[n].state # "absent" /\ table'[n].gen = gens[n]
            /\ Selected(cmd.selector, table'[n].labels)
        BY <2>5 DEF Due
      <3>2. table[n].gen = gens[n] /\ table[n].gen = table'[n].gen
        BY <2>1, <2>2, <2>3, <3>1
      <3>3. table[n].state # "absent" /\ table[n].labels = table'[n].labels
        BY <2>1, <3>1, <3>2 DEF Evolves
      <3>4. QED
        BY <2>5, <3>1, <3>2, <3>3 DEF Due
    <2>6. QED
      BY <2>4, <2>5
  <1>2. QED
    BY <1>1 DEF GensInv

\* What was shown says as much of a service that evolves as it did before.
LEMMA ShownStays ==
    ASSUME AttachTypeOK, ShownInv, target \in Names, TableEvolves,
           target' = target, shown' = shown, gens' = gens
    PROVE  ShownInv'
  <1> DEFINE s == table[target]
             t == table'[target]
  <1>1. s \in Service /\ t \in Service /\ Evolves(s, t) /\ shown.gen \in Nat
    BY DEF TableEvolves, AttachTypeOK
  <1>2. s.gen \in Nat /\ t.gen \in Nat
    BY <1>1, ServiceFacts
  <1> HIDE DEF s, t
  <1>3. /\ shown.gen <= s.gen /\ gens[target] <= shown.gen
        /\ shown.gen = s.gen /\ s.state # "absent" => shown.labels = s.labels
    BY DEF ShownInv, s
  <1>4. shown.gen <= t.gen
    BY <1>1, <1>2, <1>3 DEF Evolves
  <1>5. ASSUME shown.gen = t.gen, t.state # "absent" PROVE shown.labels = t.labels
    <2>1. shown.gen = s.gen /\ s.gen = t.gen
      BY <1>1, <1>2, <1>3, <1>5 DEF Evolves
    <2>2. QED
      BY <1>1, <1>3, <1>5, <2>1 DEF Evolves
  <1>6. QED
    BY <1>3, <1>4, <1>5 DEF ShownInv, t

\* Services and other clients change the table under beamctl's hands.
LEMMA TableKeeps ==
    ASSUME AttachTypeOK, CommandInv, TableEvolves, UNCHANGED ctlVars
    PROVE  CommandInv'
  <1> USE DEF ctlVars
  <1>1. HitsAreIntended' /\ Touched' = Touched /\ (Selecting' <=> Selecting)
    BY HitsStay DEF CommandInv
  <1>2. ControlInv'
    BY <1>1 DEF CommandInv, ControlInv
  <1>3. GensInv' /\ \A n \in Names : Due(n)' => Due(n)
    BY DueBefore DEF CommandInv
  <1>4. TargetInv' /\ LateInv'
    <2>1. (Acting' <=> Acting) /\ (Pending' <=> Pending)
      BY DEF Acting, Pending
    <2>2. Selecting /\ Plain(target) /\ (Acting \/ (pc = "show" /\ req = "ok")) => ShownInv'
      BY ShownStays DEF CommandInv, TargetInv, AttachTypeOK
    <2>3. QED
      BY <1>1, <2>1, <2>2 DEF CommandInv, TargetInv, LateInv, Meant
  <1>5. SelectionIsComplete'
    <2>1. Behind' = Behind /\ Behind \subseteq Names
      BY DEF Behind, AttachTypeOK
    <2>2. Selecting /\ pc # "list" =>
            todo \cap Touched = {} /\ \A n \in Behind : Due(n) => n \in Touched
      BY SelectionIs DEF CommandInv
    <2>3. Selecting' /\ pc' # "list" =>
            todo' \cap Touched' = {} /\ \A n \in Behind' : Due(n)' => n \in Touched'
      BY <1>1, <1>3, <2>1, <2>2
    <2>4. QED
      BY <2>3 DEF SelectionIsComplete, Behind, Due
  <1>6. QED
    BY <1>1, <1>2, <1>3, <1>4, <1>5 DEF CommandInv

\* A request about the service in hand is executed, in time or late, on the service that it
\* reaches.
LEMMA ExecutedKeeps ==
    ASSUME AttachTypeOK, CommandInv, NEW r, r.op \in Operations \ {"Start", "Show"},
           PermittedMut(r.name), Executed(r),
           UNCHANGED <<cmd, pc, listed, todo, target, shown, exit, gens>>, late' = {},
           \/ r \in late /\ req' = req
           \/ /\ pc \in {"create", "show", "act", "explain", "report"} /\ req = "sent"
              /\ r \in Arrived /\ req' = IF pc = "act" THEN "ok" ELSE "error"
    PROVE  CommandInv'
  <1> DEFINE h == [asked |-> target, op |-> r.op, name |-> r.name, gen |-> table[r.name].gen,
                   shown |-> shown.gen, labels |-> table[r.name].labels]
             H == [asked : Names \cup Arguments, op : Operations \ {"Start", "Show"}, name : Names,
                   gen : Nat, shown : Nat, labels : LabelSets]
  <1>1. /\ TableEvolves /\ r.name \in Names /\ r.name # Bootstrap /\ table[r.name].state # "absent"
        /\ target \in Names \cup Arguments
    BY ExecutedEvolves DEF AttachTypeOK
  <1>2. hits' = Append(hits, h)
    BY DEF Executed
  <1>3. h \in H /\ hits \in Seq(H)
    <2>1. table[r.name] \in Service /\ shown.gen \in Nat
      BY <1>1 DEF AttachTypeOK
    <2>2. QED
      BY <1>1, <2>1, ServiceFacts DEF AttachTypeOK
  <1>4. /\ h.asked = target /\ h.op = r.op /\ h.name = r.name /\ h.gen = table[r.name].gen
        /\ h.shown = shown.gen /\ h.labels = table[r.name].labels
    OBVIOUS
  <1> HIDE DEF h, H
  <1>5. /\ DOMAIN hits = 1..Len(hits) /\ DOMAIN hits' = 1..Len(hits) + 1 /\ Len(hits) \in Nat
        /\ \A i \in 1..Len(hits) : hits'[i] = hits[i]
        /\ hits'[Len(hits) + 1] = h
    BY <1>2, <1>3, LenProperties, AppendProperties
  <1>6. Touched' = Touched \cup {target}
    <2>1. ASSUME NEW x \in Touched' PROVE x \in Touched \cup {target}
      <3>1. PICK i \in 1..Len(hits) + 1 : x = hits'[i].asked
        BY <1>5 DEF Touched
      <3>2. i \in 1..Len(hits) \/ i = Len(hits) + 1
        BY <1>5
      <3>3. QED
        BY <1>4, <1>5, <3>1, <3>2 DEF Touched
    <2>2. ASSUME NEW x \in Touched PROVE x \in Touched'
      <3>1. PICK i \in 1..Len(hits) : x = hits[i].asked
        BY <1>5 DEF Touched
      <3>2. i \in DOMAIN hits' /\ hits'[i].asked = x
        BY <1>5, <3>1
      <3>3. QED
        BY <3>2 DEF Touched
    <2>3. target \in Touched'
      <3>1. Len(hits) + 1 \in DOMAIN hits' /\ hits'[Len(hits) + 1].asked = target
        BY <1>4, <1>5
      <3>2. QED
        BY <3>1 DEF Touched
    <2>4. QED
      BY <2>1, <2>2, <2>3
  <1>7. /\ Selecting' <=> Selecting
        /\ target \notin Touched /\ target \notin todo
        /\ IF Selecting THEN target \in listed ELSE Meant(target)
        /\ pc \notin {"idle", "list"}
    BY DEF CommandInv, TargetInv, Selecting, Acting, Pending, ControlInv
  <1>8. cmd \in Commands /\ listed \subseteq Names
    BY DEF AttachTypeOK
  <1>9. ASSUME Plain(target)
        PROVE  /\ h.name = target /\ h.op = cmd.op
               /\ Selecting => Selected(cmd.selector, h.labels) \/ h.gen > h.shown
    <2>1. r = [op |-> cmd.op, name |-> target] /\ Acting
      <3>1. CASE r \in late
        BY <1>9, <3>1 DEF CommandInv, LateInv, Acting
      <3>2. CASE r \in Arrived /\ pc # "list"
        BY <1>9, <3>2, ArrivedFacts DEF CommandInv, Acting
      <3>3. QED
        BY <1>7, <3>1, <3>2
    <2>2. r.op = cmd.op /\ r.name = target
      BY <2>1
    <2>3. ASSUME Selecting PROVE Selected(cmd.selector, h.labels) \/ h.gen > h.shown
      <3>1. cmd.selector \in Selectors
        BY <1>8, <2>3, CommandFacts DEF Selecting
      <3>2. ShownInv /\ KeysMatch(cmd.selector, shown.labels)
        BY <1>9, <2>1, <2>3 DEF CommandInv, TargetInv
      <3>3. Selected(cmd.selector, shown.labels)
        BY <3>1, <3>2, KeysMatchIs
      <3>4. table[target].gen \in Nat /\ shown.gen \in Nat
        BY <1>1, <2>2, ServiceFacts DEF AttachTypeOK
      <3>5. /\ shown.gen <= table[target].gen
            /\ shown.gen = table[target].gen => shown.labels = table[target].labels
        BY <1>1, <2>2, <3>2 DEF ShownInv
      <3>6. CASE shown.gen = table[target].gen
        BY <1>4, <2>2, <3>3, <3>5, <3>6
      <3>7. CASE shown.gen # table[target].gen
        BY <1>4, <2>2, <3>4, <3>5, <3>7
      <3>8. QED
        BY <3>6, <3>7
    <2>4. QED
      BY <1>4, <2>2, <2>3
  <1>10. HitsAreIntended'
    <2> DEFINE Fits(g) ==
                 /\ IF Selecting THEN g.asked \in listed ELSE Meant(g.asked)
                 /\ g.name # Bootstrap
                 /\ Plain(g.asked) =>
                      /\ g.name = g.asked /\ g.op = cmd.op
                      /\ Selecting => Selected(cmd.selector, g.labels) \/ g.gen > g.shown
    <2>1. Fits(h)
      BY <1>1, <1>4, <1>7, <1>9
    <2>2. \A i \in DOMAIN hits :
            Fits(hits[i]) /\ \A j \in DOMAIN hits : hits[i].asked = hits[j].asked => i = j
      BY DEF CommandInv, HitsAreIntended
    <2> HIDE DEF Fits
    <2>3. ASSUME NEW i \in DOMAIN hits', NEW j \in DOMAIN hits', hits'[i].asked = hits'[j].asked
          PROVE  i = j
      <3>1. /\ i \in 1..Len(hits) \/ i = Len(hits) + 1
            /\ j \in 1..Len(hits) \/ j = Len(hits) + 1
        BY <1>5
      <3>2. \A k \in 1..Len(hits) : hits'[k].asked # target
        BY <1>5, <1>7 DEF Touched
      <3>3. CASE i \in 1..Len(hits) /\ j \in 1..Len(hits)
        BY <1>5, <2>2, <2>3, <3>3
      <3>4. CASE i = Len(hits) + 1 \/ j = Len(hits) + 1
        BY <1>4, <1>5, <2>3, <3>1, <3>2, <3>4
      <3>5. QED
        BY <3>1, <3>3, <3>4
    <2>4. ASSUME NEW i \in DOMAIN hits' PROVE Fits(hits'[i])
      <3>1. CASE i \in 1..Len(hits)
        BY <1>5, <2>2, <3>1
      <3>2. CASE i = Len(hits) + 1
        BY <1>5, <2>1, <3>2
      <3>3. QED
        BY <1>5, <3>1, <3>2
    <2>5. QED
      BY <1>7, <2>3, <2>4 DEF HitsAreIntended, Fits, Meant
  <1>11. ControlInv'
    <2>1. pc # "list" /\ (pc \in {"create", "explain", "report"} => req' = "error")
      BY <1>7 DEF CommandInv, ControlInv
    <2>2. QED
      BY <1>7, <2>1 DEF CommandInv, ControlInv
  <1>12. GensInv' /\ \A n \in Names : Due(n)' => Due(n)
    BY <1>1, DueBefore DEF CommandInv
  <1>13. TargetInv' /\ LateInv'
    <2>1. ~Pending' /\ (Acting' => Acting) /\ (pc = "show" => req' # "ok")
      <3>1. CASE r \in late
        BY <3>1 DEF Pending, Acting, CommandInv, ControlInv, AttachTypeOK
      <3>2. CASE r \notin late
        BY <3>2 DEF Pending, Acting
      <3>3. QED
        BY <3>1, <3>2
    <2>2. Selecting /\ Plain(target) /\ Acting => ShownInv'
      BY <1>1, <1>7, <1>8, ShownStays DEF CommandInv, TargetInv
    <2>3. QED
      BY <1>6, <1>7, <2>1, <2>2 DEF CommandInv, TargetInv, LateInv, Meant
  <1>14. SelectionIsComplete'
    <2>1. Behind' = Behind /\ Behind \subseteq Names
      BY <1>8 DEF Behind
    <2>2. Selecting /\ pc # "list" =>
            todo \cap Touched = {} /\ \A n \in Behind : Due(n) => n \in Touched
      BY SelectionIs DEF CommandInv
    <2>3. Selecting' /\ pc' # "list" =>
            todo' \cap Touched' = {} /\ \A n \in Behind' : Due(n)' => n \in Touched'
      BY <1>6, <1>7, <1>12, <2>1, <2>2
    <2>4. QED
      BY <2>3 DEF SelectionIsComplete, Behind, Due
  <1>15. QED
    BY <1>10, <1>11, <1>12, <1>13, <1>14 DEF CommandInv

\* The command line is read.
LEMMA RunKeeps == AttachTypeOK /\ CommandInv /\ Run(cmd) => CommandInv'
  <1> SUFFICES ASSUME AttachTypeOK, CommandInv, Run(cmd) PROVE CommandInv'
    OBVIOUS
  <1>1. /\ pc = "idle" /\ cmd' = cmd /\ req' = "sent"
        /\ \/ cmd.op = "Start" /\ pc' = "create" /\ target' = cmd.name
           \/ cmd.op # "Start" /\ pc' = "list" /\ target' = target
        /\ UNCHANGED <<table, changes, listed, todo, shown, late, gens, hits>>
    BY DEF Run, Sends, tableVars
  <1>2. /\ hits = <<>> /\ todo = {} /\ listed = {} /\ late = {}
        /\ cmd.op = "Start" => ~Selecting /\ cmd.name \in NewNames
    BY <1>1, CommandFacts DEF AttachTypeOK, CommandInv, ControlInv, Selecting
  <1>3. HitsAreIntended' /\ Touched' = Touched /\ (Selecting' <=> Selecting)
    BY <1>1, HitsStay DEF CommandInv
  <1>4. ControlInv'
    BY <1>1, <1>2, <1>3 DEF ControlInv
  <1>5. TargetInv' /\ LateInv'
    <2>1. Touched = {}
      BY <1>2 DEF Touched
    <2>2. QED
      BY <1>1, <1>2, <1>3, <2>1 DEF TargetInv, LateInv, Acting, Meant
  <1>6. GensInv'
    BY <1>1 DEF CommandInv, GensInv
  <1>7. SelectionIsComplete'
    BY <1>1, <1>2, <1>3 DEF SelectionIsComplete
  <1>8. QED
    BY <1>3, <1>4, <1>5, <1>6, <1>7 DEF CommandInv

\* prefix_match chooses a name.
LEMMA MatchedKeeps == AttachTypeOK /\ CommandInv /\ Matched => CommandInv'
  <1> SUFFICES ASSUME AttachTypeOK, CommandInv, Matched PROVE CommandInv'
    OBVIOUS
  <1>1. /\ pc = "list" /\ ~Selecting /\ cmd' = cmd /\ req' = "sent"
        /\ target' = PrefixMatch(listed, cmd.name)
        /\ \/ cmd.op = "Attach" /\ pc' = "getpty"
           \/ cmd.op # "Attach" /\ pc' = "act"
        /\ UNCHANGED <<table, changes, listed, todo, shown, late, gens, hits>>
    BY DEF Matched, Sends, tableVars
  <1>2. /\ hits = <<>> /\ todo = {} /\ late = {}
        /\ cmd.op # "Start" /\ (cmd.op # "Attach" => cmd.op \in Ops)
    BY <1>1, CommandFacts DEF AttachTypeOK, CommandInv, ControlInv, Selecting
  <1>3. HitsAreIntended' /\ Touched' = Touched /\ (Selecting' <=> Selecting)
    BY <1>1, HitsStay DEF CommandInv
  <1>4. ControlInv'
    BY <1>1, <1>2, <1>3 DEF ControlInv
  <1>5. TargetInv' /\ LateInv'
    <2>1. Touched = {}
      BY <1>2 DEF Touched
    <2>2. Meant(target)'
      <3>1. cmd.name \in Seq(Nat) /\ listed \in SUBSET Names
        BY <1>1, CommandFacts DEF AttachTypeOK, Selecting
      <3>2. QED
        BY <1>1, <3>1, PrefixMatchIs DEF Meant
    <2>3. QED
      BY <1>1, <1>2, <1>3, <2>1, <2>2 DEF TargetInv, LateInv, Acting
  <1>6. GensInv'
    BY <1>1 DEF CommandInv, GensInv
  <1>7. SelectionIsComplete'
    BY <1>1, <1>3 DEF SelectionIsComplete
  <1>8. QED
    BY <1>3, <1>4, <1>5, <1>6, <1>7 DEF CommandInv

\* service_match starts with the whole list.
LEMMA FilteredKeeps == CommandInv /\ Filtered => CommandInv'
  <1> SUFFICES ASSUME CommandInv, Filtered PROVE CommandInv'
    OBVIOUS
  <1>1. /\ pc = "list" /\ Selecting /\ cmd' = cmd /\ req' = "none"
        /\ todo' = listed /\ pc' = "next"
        /\ UNCHANGED <<table, changes, listed, target, exit, late, gens, hits>>
    BY DEF Filtered, Advances, tableVars
  <1>2. hits = <<>> /\ late = {} /\ cmd.op # "Start"
    BY <1>1 DEF CommandInv, ControlInv
  <1>3. HitsAreIntended' /\ Touched' = Touched /\ (Selecting' <=> Selecting)
    BY <1>1, HitsStay DEF CommandInv
  <1>4. ControlInv'
    BY <1>1, <1>2, <1>3 DEF ControlInv
  <1>5. TargetInv' /\ LateInv'
    BY <1>1, <1>2, <1>3 DEF TargetInv, LateInv, Pending, Acting
  <1>6. GensInv'
    BY <1>1 DEF CommandInv, GensInv
  <1>7. SelectionIsComplete'
    <2>1. Touched = {}
      BY <1>2 DEF Touched
    <2>2. QED
      BY <1>1, <1>3, <2>1 DEF SelectionIsComplete
  <1>8. QED
    BY <1>3, <1>4, <1>5, <1>6, <1>7 DEF CommandInv

\* The loop takes the next name.
LEMMA ShowNextKeeps == AttachTypeOK /\ CommandInv /\ ShowNext => CommandInv'
  <1> SUFFICES ASSUME AttachTypeOK, CommandInv, ShowNext PROVE CommandInv'
    OBVIOUS
  <1> DEFINE f == First(todo)
  <1>1. /\ pc = "next" /\ todo # {} /\ cmd' = cmd /\ req' = "sent"
        /\ target' = f /\ todo' = todo \ {f} /\ pc' = "show"
        /\ UNCHANGED <<table, changes, listed, shown, exit, late, gens, hits>>
    BY DEF ShowNext, Sends, tableVars
  <1>2. /\ Selecting /\ late = {} /\ todo \subseteq listed /\ listed \subseteq Names
        /\ exit = "none" /\ cmd.op # "Start"
    BY <1>1, CommandFacts DEF AttachTypeOK, CommandInv, ControlInv, Selecting
  <1>3. f \in todo
    BY <1>1, <1>2, FirstIs
  <1> HIDE DEF f
  <1>4. HitsAreIntended' /\ Touched' = Touched /\ (Selecting' <=> Selecting)
    BY <1>1, HitsStay DEF CommandInv
  <1>5. todo \cap Touched = {} /\ \A n \in Behind : Due(n) => n \in Touched
    BY <1>1, <1>2, SelectionIs DEF CommandInv
  <1>6. ControlInv'
    BY <1>1, <1>2, <1>4 DEF ControlInv
  <1>7. TargetInv' /\ LateInv'
    BY <1>1, <1>2, <1>3, <1>4, <1>5 DEF TargetInv, LateInv, Pending, Acting
  <1>8. GensInv'
    BY <1>1 DEF CommandInv, GensInv
  <1>9. SelectionIsComplete'
    <2>1. Behind = listed \ todo
      BY <1>1 DEF Behind
    <2>2. Behind' = listed \ todo
      BY <1>1, <1>2, <1>3 DEF Behind
    <2>3. \A n : Due(n)' <=> Due(n)
      BY <1>1 DEF Due
    <2>4. todo' \cap Touched' = {} /\ \A n \in Behind' : Due(n)' => n \in Touched'
      BY <1>1, <1>4, <1>5, <2>1, <2>2, <2>3
    <2>5. QED
      BY <2>4 DEF SelectionIsComplete, Behind, Due
  <1>10. QED
    BY <1>4, <1>6, <1>7, <1>8, <1>9 DEF CommandInv

\* The labels match, and the request is sent; or they do not, and then the service is not due.
LEMMA ShownKeeps == AttachTypeOK /\ CommandInv /\ Shown => CommandInv'
  <1> SUFFICES ASSUME AttachTypeOK, CommandInv, Shown PROVE CommandInv'
    OBVIOUS
  <1>1. /\ pc = "show" /\ req = "ok" /\ cmd' = cmd
        /\ \/ /\ KeysMatch(cmd.selector, shown.labels)
              /\ pc' = "act" /\ req' = "sent" /\ shown' = shown
           \/ /\ ~KeysMatch(cmd.selector, shown.labels)
              /\ pc' = "next" /\ req' = "none"
        /\ UNCHANGED <<table, changes, listed, todo, target, exit, late, gens, hits>>
    BY DEF Shown, Sends, Advances, tableVars
  <1>2. /\ Selecting /\ late = {} /\ exit = "none" /\ cmd.op \in Ops /\ cmd.op # "Start"
        /\ cmd.selector \in Selectors
    BY <1>1, CommandFacts DEF AttachTypeOK, CommandInv, ControlInv, Selecting
  <1>3. HitsAreIntended' /\ Touched' = Touched /\ (Selecting' <=> Selecting)
    BY <1>1, HitsStay DEF CommandInv
  <1>4. /\ target \notin Touched /\ target \notin todo /\ target \in listed /\ target \in Names
        /\ Plain(target) => ShownInv
    BY <1>1, <1>2 DEF CommandInv, TargetInv, Pending, AttachTypeOK
  <1>5. todo \cap Touched = {} /\ \A n \in Behind : Due(n) => n \in Touched
    BY <1>1, <1>2, SelectionIs DEF CommandInv
  <1>6. ControlInv'
    BY <1>1, <1>2, <1>3 DEF CommandInv, ControlInv
  <1>7. TargetInv' /\ LateInv'
    <2>1. CASE pc' = "act"
      <3>1. (Plain(target) => ShownInv') /\ KeysMatch(cmd.selector, shown.labels)
        BY <1>1, <1>4, <2>1 DEF ShownInv
      <3>2. QED
        BY <1>1, <1>2, <1>3, <1>4, <2>1, <3>1 DEF TargetInv, LateInv
    <2>2. CASE pc' = "next"
      BY <1>1, <1>2, <1>3, <2>2 DEF TargetInv, LateInv, Pending, Acting
    <2>3. QED
      BY <1>1, <2>1, <2>2
  <1>8. GensInv'
    BY <1>1 DEF CommandInv, GensInv
  <1>9. SelectionIsComplete'
    <2>1. Behind = listed \ (todo \cup {target})
      BY <1>1, <1>2 DEF Behind
    <2>2. \A n : Due(n)' <=> Due(n)
      BY <1>1 DEF Due
    <2>3. CASE pc' = "act"
      <3>1. Behind' = Behind
        BY <1>1, <1>2, <2>1, <2>3 DEF Behind
      <3>2. todo' \cap Touched' = {} /\ \A n \in Behind' : Due(n)' => n \in Touched'
        BY <1>1, <1>3, <1>5, <2>2, <3>1
      <3>3. QED
        BY <3>2 DEF SelectionIsComplete, Behind, Due
    <2>4. CASE pc' = "next"
      <3>1. Behind' \subseteq Behind \cup {target}
        BY <1>1, <1>2, <2>1, <2>4 DEF Behind
      <3>2. ~Due(target)
        <4> SUFFICES ASSUME Due(target) PROVE FALSE
          OBVIOUS
        <4>1. /\ table[target].state # "absent" /\ table[target].gen = gens[target] /\ Plain(target)
              /\ Selected(cmd.selector, table[target].labels)
          BY DEF Due
        <4>2. shown.gen \in Nat /\ table[target].gen \in Nat
          BY <1>4, ServiceFacts DEF AttachTypeOK
        <4>3. shown.gen = table[target].gen
          BY <1>4, <4>1, <4>2 DEF ShownInv
        <4>4. shown.labels = table[target].labels
          BY <1>4, <4>1, <4>3 DEF ShownInv
        <4>5. KeysMatch(cmd.selector, shown.labels)
          BY <1>2, <4>1, <4>4, KeysMatchIs
        <4>6. QED
          BY <1>1, <2>4, <4>5
      <3>3. todo' \cap Touched' = {} /\ \A n \in Behind' : Due(n)' => n \in Touched'
        BY <1>1, <1>3, <1>5, <2>2, <3>1, <3>2
      <3>4. QED
        BY <3>3 DEF SelectionIsComplete, Behind, Due
    <2>5. QED
      BY <1>1, <2>3, <2>4
  <1>10. QED
    BY <1>3, <1>6, <1>7, <1>8, <1>9 DEF CommandInv

\* The request was executed: on to the next name, or the command is over.
LEMMA ActedKeeps == AttachTypeOK /\ CommandInv /\ Acted => CommandInv'
  <1> SUFFICES ASSUME AttachTypeOK, CommandInv, Acted PROVE CommandInv'
    OBVIOUS
  <1>1. /\ pc = "act" /\ req = "ok" /\ cmd' = cmd /\ req' = "none"
        /\ \/ Selecting /\ pc' = "next" /\ exit' = exit
           \/ ~Selecting /\ pc' = "done"
        /\ UNCHANGED <<table, changes, listed, todo, target, late, gens, hits>>
    BY DEF Acted, Exits, Advances, tableVars
  <1>2. /\ late = {} /\ exit = "none" /\ cmd.op # "Start"
        /\ ~Selecting => Meant(target)
    BY <1>1, CommandFacts DEF AttachTypeOK, CommandInv, ControlInv, TargetInv
  <1>3. HitsAreIntended' /\ Touched' = Touched /\ (Selecting' <=> Selecting)
    BY <1>1, HitsStay DEF CommandInv
  <1>4. ControlInv'
    BY <1>1, <1>2, <1>3 DEF CommandInv, ControlInv
  <1>5. TargetInv' /\ LateInv'
    BY <1>1, <1>2, <1>3 DEF TargetInv, LateInv, Pending, Acting, Meant
  <1>6. GensInv'
    BY <1>1 DEF CommandInv, GensInv
  <1>7. SelectionIsComplete'
    <2>1. CASE ~Selecting
      BY <1>3, <2>1 DEF SelectionIsComplete
    <2>2. CASE Selecting
      <3>1. todo \cap Touched = {} /\ \A n \in Behind : Due(n) => n \in Touched
        BY <1>1, <2>2, SelectionIs DEF CommandInv
      <3>2. target \in Touched
        BY <1>1 DEF CommandInv, TargetInv
      <3>3. Behind' \subseteq Behind \cup {target}
        BY <1>1, <1>2, <2>2 DEF Behind
      <3>4. \A n : Due(n)' <=> Due(n)
        BY <1>1 DEF Due
      <3>5. todo' \cap Touched' = {} /\ \A n \in Behind' : Due(n)' => n \in Touched'
        BY <1>1, <1>3, <3>1, <3>2, <3>3, <3>4
      <3>6. QED
        BY <3>5 DEF SelectionIsComplete, Behind, Due
    <2>3. QED
      BY <2>1, <2>2
  <1>8. QED
    BY <1>3, <1>4, <1>5, <1>6, <1>7 DEF CommandInv

\* Nothing is left to do.
LEMMA AllDoneKeeps == AttachTypeOK /\ CommandInv /\ AllDone => CommandInv'
  <1> SUFFICES ASSUME AttachTypeOK, CommandInv, AllDone PROVE CommandInv'
    OBVIOUS
  <1>1. /\ pc = "next" /\ cmd' = cmd /\ req' = "none" /\ pc' = "done" /\ exit' = "ok"
        /\ UNCHANGED <<table, changes, listed, todo, target, shown, late, gens, hits>>
    BY DEF AllDone, Exits, tableVars
  <1>2. late = {} /\ Selecting
    BY <1>1 DEF CommandInv, ControlInv
  <1>3. HitsAreIntended' /\ Touched' = Touched /\ (Selecting' <=> Selecting)
    BY <1>1, HitsStay DEF CommandInv
  <1>4. ControlInv'
    BY <1>1, <1>2, <1>3 DEF CommandInv, ControlInv
  <1>5. TargetInv' /\ LateInv'
    BY <1>1, <1>2, <1>3 DEF TargetInv, LateInv, Pending, Acting
  <1>6. GensInv'
    BY <1>1 DEF CommandInv, GensInv
  <1>7. SelectionIsComplete'
    <2>1. todo \cap Touched = {} /\ \A n \in Behind : Due(n) => n \in Touched
      BY <1>1, <1>2, SelectionIs DEF CommandInv
    <2>2. Behind' = Behind /\ \A n : Due(n)' <=> Due(n)
      BY <1>1 DEF Behind, Due
    <2>3. todo' \cap Touched' = {} /\ \A n \in Behind' : Due(n)' => n \in Touched'
      BY <1>1, <1>3, <2>1, <2>2
    <2>4. QED
      BY <2>3 DEF SelectionIsComplete, Behind, Due
  <1>8. QED
    BY <1>3, <1>4, <1>5, <1>6, <1>7 DEF CommandInv

\* beamctl gives up: an error is answered, or no answer comes in time and the request may
\* still be executed.
LEMMA GivesUpKeeps ==
    ASSUME AttachTypeOK, CommandInv, pc \in Requests,
           pc' = "done", req' = "none", exit' = "failed",
           \/ req = "error" /\ late' = late
           \/ req = "sent" /\ late' = Unanswered,
           UNCHANGED <<tableVars, cmd, listed, todo, target, shown, gens, hits>>
    PROVE  CommandInv'
  <1> USE DEF tableVars
  <1>1. /\ late = {} /\ exit = "none" /\ pc # "done"
        /\ pc \in {"create", "list", "show", "act", "explain", "report"}
    BY DEF AttachTypeOK, CommandInv, ControlInv, Requests
  <1>2. HitsAreIntended' /\ Touched' = Touched /\ (Selecting' <=> Selecting)
    BY HitsStay DEF CommandInv
  <1>3. ControlInv'
    BY <1>1, <1>2 DEF CommandInv, ControlInv
  <1>4. TargetInv' /\ LateInv'
    <2>1. late' # {} => req = "sent" /\ pc # "list" /\ late' = {r \in Arrived : r.op # "Show"}
      BY <1>1 DEF Unanswered
    <2>2. LateInv'
      <3>1. ASSUME NEW r \in late'
            PROVE  /\ r.op = "Start" => r.name \in Names
                   /\ Plain(target) => r = [op |-> cmd.op, name |-> target]
        <4>1. pc # "list" /\ r \in Arrived /\ r.op # "Show"
          BY <2>1, <3>1
        <4>2. QED
          BY <4>1, ArrivedFacts DEF CommandInv
      <3>2. QED
        BY <3>1 DEF LateInv
    <2>3. ASSUME Plain(target), Selecting, late' # {} PROVE pc = "act"
      <3>1. PICK r \in Arrived : r.op # "Show"
        BY <2>1, <2>3
      <3>2. r = [op |-> cmd.op, name |-> target] /\ r.op \in Operations
        BY <2>1, <2>3, <3>1, ArrivedFacts DEF CommandInv
      <3>3. cmd.op \in Ops /\ r.op = cmd.op
        BY <2>3, <3>2, CommandFacts DEF AttachTypeOK, Selecting
      <3>4. QED
        BY <2>1, <2>3, <3>1, <3>3, ArrivedFacts, CommandFacts, BeamctlAssumption
        DEF CommandInv, Requestable
    <2>4. ShownInv => ShownInv'
      BY DEF ShownInv
    <2>5. late' # {} /\ ~Selecting => Meant(target)
      BY <1>1, <2>1 DEF CommandInv, TargetInv
    <2>6. QED
      BY <1>1, <1>2, <2>1, <2>2, <2>3, <2>4, <2>5
      DEF CommandInv, TargetInv, ControlInv, Pending, Acting, Meant
  <1>5. GensInv'
    BY DEF CommandInv, GensInv
  <1>6. SelectionIsComplete'
    <2>1. CASE ~Selecting
      BY <1>2, <2>1 DEF SelectionIsComplete
    <2>2. CASE pc = "list"
      <3>1. listed = {} /\ todo = {}
        BY <2>2 DEF CommandInv, ControlInv
      <3>2. QED
        BY <3>1 DEF SelectionIsComplete
    <2>3. CASE Selecting /\ pc # "list"
      <3>1. todo \cap Touched = {} /\ \A n \in Behind : Due(n) => n \in Touched
        BY <2>3, SelectionIs DEF CommandInv
      <3>2. pc # "next"
        BY <1>1
      <3>3. Behind' = Behind /\ \A n : Due(n)' <=> Due(n)
        BY <1>1, <3>2 DEF Behind, Due
      <3>4. todo' \cap Touched' = {} /\ \A n \in Behind' : Due(n)' => n \in Touched'
        BY <1>2, <3>1, <3>3
      <3>5. QED
        BY <3>4 DEF SelectionIsComplete, Behind, Due
    <2>4. QED
      BY <2>1, <2>2, <2>3
  <1>7. QED
    BY <1>2, <1>3, <1>4, <1>5, <1>6 DEF CommandInv

\* list_services is answered.
LEMMA ServeListKeeps == AttachTypeOK /\ CommandInv /\ ServeList => CommandInv'
  <1> SUFFICES ASSUME AttachTypeOK, CommandInv, ServeList PROVE CommandInv'
    OBVIOUS
  <1>1. /\ pc = "list" /\ req' = "ok" /\ gens' = [n \in Names |-> table[n].gen]
        /\ UNCHANGED <<table, changes, cmd, pc, todo, target, shown, exit, late, hits>>
    BY DEF ServeList, Answer, tableVars
  <1>2. hits = <<>> /\ todo = {} /\ late = {}
    BY <1>1 DEF CommandInv, ControlInv
  <1>3. HitsAreIntended' /\ Touched' = Touched /\ (Selecting' <=> Selecting)
    BY <1>1, <1>2, HitsStay DEF CommandInv
  <1>4. ControlInv'
    BY <1>1, <1>2, <1>3 DEF CommandInv, ControlInv
  <1>5. TargetInv' /\ LateInv'
    BY <1>1, <1>2 DEF TargetInv, LateInv, Pending, Acting
  <1>6. GensInv'
    <2>1. ASSUME NEW n \in Names PROVE table[n].gen <= table[n].gen
      <3>1. table[n].gen \in Nat
        BY ServiceFacts DEF AttachTypeOK
      <3>2. QED
        BY <3>1
    <2>2. QED
      BY <1>1, <2>1 DEF GensInv
  <1>7. SelectionIsComplete'
    BY <1>1 DEF SelectionIsComplete
  <1>8. QED
    BY <1>3, <1>4, <1>5, <1>6, <1>7 DEF CommandInv

\* A request is answered that changes nothing: what beamctl does next depends on it.
LEMMA AnsweredKeeps ==
    ASSUME AttachTypeOK, CommandInv, req = "sent", req' \in {"ok", "error"},
           UNCHANGED <<cmd, pc, listed, todo, target, exit, late, gens, hits>>,
           pc \in {"create", "show", "act", "explain", "report"}, pc = "act" => req' = "error",
           TableEvolves,
           IF pc = "show" /\ req' = "ok"
           THEN /\ table' = table
                /\ Plain(target) => shown' = [labels |-> table[target].labels,
                                              gen |-> table[target].gen]
           ELSE shown' = shown
    PROVE  CommandInv'
  <1>1. late = {}
    BY DEF CommandInv, ControlInv
  <1>2. HitsAreIntended' /\ Touched' = Touched /\ (Selecting' <=> Selecting)
    BY HitsStay DEF CommandInv
  <1>3. ControlInv'
    BY <1>1, <1>2 DEF CommandInv, ControlInv
  <1>5. GensInv' /\ \A n \in Names : Due(n)' => Due(n)
    BY DueBefore DEF CommandInv
  <1>6. TargetInv' /\ LateInv'
    <2>1. /\ target \notin Touched /\ target \notin todo
          /\ ~Selecting => Meant(target)
          /\ Selecting /\ pc \in {"act", "show"} => target \in listed /\ target \in Names
      BY DEF CommandInv, TargetInv, Pending, Acting, AttachTypeOK
    <2>2. CASE pc = "show"
      <3>1. Selecting
        BY <2>2 DEF CommandInv, ControlInv
      <3>2. req' = "ok" /\ Plain(target) => ShownInv'
        <4>1. /\ table[target].gen \in Nat /\ gens[target] <= table[target].gen
              /\ table[target].gen <= table[target].gen
          <5>1. table[target] \in Service /\ gens[target] <= table[target].gen
            BY <2>1, <2>2, <3>1 DEF AttachTypeOK, CommandInv, GensInv
          <5>2. table[target].gen \in Nat
            BY <5>1, ServiceFacts
          <5>3. QED
            BY <5>1, <5>2
        <4>2. QED
          BY <2>2, <4>1 DEF ShownInv
      <3>3. QED
        BY <1>1, <1>2, <2>1, <2>2, <3>1, <3>2 DEF TargetInv, LateInv, Pending, Acting
    <2>3. CASE pc = "act"
      <3>1. Selecting /\ Plain(target) => ShownInv' /\ KeysMatch(cmd.selector, shown.labels)
        BY <2>1, <2>3, ShownStays DEF CommandInv, TargetInv, Acting
      <3>2. QED
        BY <1>1, <1>2, <2>1, <2>3, <3>1 DEF TargetInv, LateInv, Pending, Acting, Meant
    <2>4. CASE pc \in {"create", "explain", "report"}
      BY <1>1, <1>2, <2>1, <2>4 DEF TargetInv, LateInv, Pending, Acting, Meant
    <2>5. QED
      BY <2>2, <2>3, <2>4
  <1>7. SelectionIsComplete'
    <2>1. Behind' = Behind /\ Behind \subseteq Names
      BY DEF Behind, AttachTypeOK
    <2>2. Selecting => todo \cap Touched = {} /\ \A n \in Behind : Due(n) => n \in Touched
      BY SelectionIs DEF CommandInv
    <2>3. Selecting' =>
            todo' \cap Touched' = {} /\ \A n \in Behind' : Due(n)' => n \in Touched'
      BY <1>2, <1>5, <2>1, <2>2
    <2>4. QED
      BY <2>3 DEF SelectionIsComplete, Behind, Due
  <1>8. QED
    BY <1>2, <1>3, <1>5, <1>6, <1>7 DEF CommandInv

\* A request that timed out is dropped, or comes too late to do anything to a service.
LEMMA LateKeeps ==
    ASSUME AttachTypeOK, CommandInv, late # {}, late' = {}, TableEvolves,
           UNCHANGED <<cmd, pc, req, listed, todo, target, shown, exit, gens, hits>>
    PROVE  CommandInv'
  <1>1. pc = "done" /\ exit = "failed"
    BY DEF CommandInv, ControlInv
  <1>2. HitsAreIntended' /\ Touched' = Touched /\ (Selecting' <=> Selecting)
    BY HitsStay DEF CommandInv
  <1>3. ControlInv'
    BY <1>1, <1>2 DEF CommandInv, ControlInv
  <1>4. GensInv' /\ \A n \in Names : Due(n)' => Due(n)
    BY DueBefore DEF CommandInv
  <1>5. TargetInv' /\ LateInv'
    <2>1. ~Selecting => Meant(target)
      BY <1>1 DEF CommandInv, TargetInv
    <2>2. req = "none"
      BY <1>1 DEF AttachTypeOK
    <2>3. QED
      BY <1>1, <1>2, <2>1, <2>2 DEF TargetInv, LateInv, Pending, Acting, Meant
  <1>6. SelectionIsComplete'
    <2>1. Behind' = Behind /\ Behind \subseteq Names
      BY DEF Behind, AttachTypeOK
    <2>2. Selecting => todo \cap Touched = {} /\ \A n \in Behind : Due(n) => n \in Touched
      BY <1>1, SelectionIs DEF CommandInv
    <2>3. Selecting' =>
            todo' \cap Touched' = {} /\ \A n \in Behind' : Due(n)' => n \in Touched'
      BY <1>2, <1>4, <2>1, <2>2
    <2>4. QED
      BY <2>3 DEF SelectionIsComplete, Behind, Due
  <1>7. QED
    BY <1>2, <1>3, <1>4, <1>5, <1>6 DEF CommandInv

\* beam-init answers, or gets round to what nobody waits for.
LEMMA ServerKeeps == AttachTypeOK /\ CommandInv /\ ServerStep => CommandInv'
  <1> SUFFICES ASSUME AttachTypeOK, CommandInv, ServerStep PROVE CommandInv'
    OBVIOUS
  <1>0. table \in [Names -> Service]
    BY DEF AttachTypeOK
  <1>1. CASE ServeList
    BY <1>1, ServeListKeeps
  <1>2. CASE ServeShow
    <2>1. PICK r \in Arrived :
            /\ Permitted(r.name)
            /\ shown' = IF pc = "show"
                        THEN [labels |-> table[r.name].labels, gen |-> table[r.name].gen]
                        ELSE shown
      BY <1>2 DEF ServeShow
    <2>2. /\ pc \in {"show", "explain", "report"} /\ req = "sent" /\ req' = "ok"
          /\ UNCHANGED <<table, changes, cmd, pc, listed, todo, target, exit, late, gens, hits>>
      BY <1>2 DEF ServeShow, Answer, tableVars
    <2>3. Plain(target) => r.name = target
      BY <2>2, ArrivedFacts DEF CommandInv
    <2>4. TableEvolves
      BY <1>0, <2>2, NoneEvolves
    <2>5. QED
      BY <2>1, <2>2, <2>3, <2>4, AnsweredKeeps
  <1>3. CASE ServeAct
    <2>1. /\ pc \in {"create", "show", "act", "explain", "report"}
          /\ req = "sent" /\ req' = IF pc = "act" THEN "ok" ELSE "error"
          /\ UNCHANGED <<changes, cmd, pc, listed, todo, target, shown, exit, late, gens>>
      BY <1>3 DEF ServeAct, Answer
    <2>2. late = {}
      BY <2>1 DEF CommandInv, ControlInv
    <2>3. PICK r \in Arrived : r.op \notin {"Start", "Show"} /\ PermittedMut(r.name) /\ Executed(r)
      BY <1>3 DEF ServeAct
    <2>4. r.op \in Operations \ {"Start", "Show"}
      BY <2>1, <2>3, ArrivedFacts DEF CommandInv
    <2>5. late' = {}
      BY <2>1, <2>2
    <2>6. QED
      BY <2>1, <2>3, <2>4, <2>5, ExecutedKeeps
  <1>4. CASE ServeCreate
    <2>1. /\ pc = "create" /\ req = "sent"
          /\ UNCHANGED <<changes, cmd, pc, listed, todo, target, shown, exit, late, gens, hits>>
      BY <1>4 DEF ServeCreate, Answer
    <2>2. PICK r \in Arrived :
            /\ r.op = "Start" /\ Creates(r.name)
            /\ Answer(IF table'[r.name] # table[r.name] /\ table'[r.name].state = "up"
                      THEN "ok" ELSE "error")
      BY <1>4 DEF ServeCreate
    <2>3. r.name \in Names /\ req' \in {"ok", "error"}
      BY <2>1, <2>2, ArrivedFacts DEF CommandInv, Answer
    <2>4. TableEvolves
      BY <1>0, <2>2, <2>3, CreatesEvolves
    <2>5. QED
      BY <2>1, <2>3, <2>4, AnsweredKeeps
  <1>8. CASE ServeError
    <2>1. /\ pc \in {"create", "show", "act", "explain", "report"} /\ req = "sent" /\ req' = "error"
          /\ UNCHANGED <<table, changes, cmd, pc, listed, todo, target, shown, exit, late, gens, hits>>
      BY <1>8 DEF ServeError, Answer, tableVars
    <2>2. TableEvolves
      BY <1>0, <2>1, NoneEvolves
    <2>3. QED
      BY <2>1, <2>2, AnsweredKeeps
  <1>5. CASE ServeLate
    <2>1. /\ late # {} /\ late' = {}
          /\ UNCHANGED <<changes, cmd, pc, req, listed, todo, target, shown, exit, gens>>
      BY <1>5 DEF ServeLate
    <2>2. PICK r \in late :
            \/ r.op # "Start" /\ PermittedMut(r.name) /\ Executed(r)
            \/ r.op # "Start" /\ ~PermittedMut(r.name) /\ UNCHANGED <<table, hits>>
            \/ r.op = "Start" /\ Creates(r.name) /\ UNCHANGED hits
      BY <1>5 DEF ServeLate
    <2>3. r.op \in Operations \ {"Show"} /\ (r.op = "Start" => r.name \in Names)
      BY DEF AttachTypeOK, CommandInv, LateInv
    <2>4. CASE r.op # "Start" /\ PermittedMut(r.name) /\ Executed(r)
      BY <2>1, <2>3, <2>4, ExecutedKeeps
    <2>5. CASE UNCHANGED <<table, hits>>
      BY <1>0, <2>1, <2>5, NoneEvolves, LateKeeps
    <2>6. CASE r.op = "Start" /\ Creates(r.name) /\ UNCHANGED hits
      BY <1>0, <2>1, <2>3, <2>6, CreatesEvolves, LateKeeps
    <2>7. QED
      BY <2>2, <2>4, <2>5, <2>6
  <1>6. CASE DropLate
    BY <1>0, <1>6, NoneEvolves, LateKeeps DEF DropLate, tableVars
  <1>7. QED
    BY <1>1, <1>2, <1>3, <1>4, <1>5, <1>6, <1>8 DEF ServerStep

\* beamctl goes on.
LEMMA ClientKeeps == AttachTypeOK /\ CommandInv /\ ClientStep => CommandInv'
  <1> SUFFICES ASSUME AttachTypeOK, CommandInv, ClientStep PROVE CommandInv'
    OBVIOUS
  <1>1. CASE Created
    <2>1. pc = "create" /\ late = {} /\ ~Selecting /\ hits = <<>>
      BY <1>1 DEF Created, CommandInv, ControlInv
    <2>2. pc' \in {"getpty", "done"} /\ UNCHANGED keptVars
      BY <1>1 DEF Created, Exits, Sends, keptVars
    <2>3. QED
      BY <2>1, <2>2, RelayKeeps
  <1>2. CASE Failed
    BY <1>2, GivesUpKeeps DEF Failed, Exits
  <1>3. CASE TimedOut
    BY <1>3, GivesUpKeeps DEF TimedOut, Exits
  <1>4. QED
    BY <1>1, <1>2, <1>3, RunKeeps, MatchedKeeps, FilteredKeeps, ShowNextKeeps, ShownKeeps,
       ActedKeeps, AllDoneKeeps DEF ClientStep

\* attach fetches the pty, relays and reports.
LEMMA RelayStepKeeps ==
    ASSUME AttachTypeOK, CommandInv, AttachStep \/ CopyOut \/ ServePty \/ ServeAttached
    PROVE  CommandInv'
  <1> DEFINE Relaying == {"getpty", "explain", "notify", "relay", "signal", "detach", "report"}
  <1>1. pc \in Relaying /\ pc' \in Relaying \cup {"done"} /\ UNCHANGED keptVars
    <2>1. CASE Explain \/ Open \/ Attached \/ Returns \/ Printed \/ ReadSignal
      BY <2>1 DEF Explain, Open, Attached, Returns, Printed, ReadSignal, Sends, Exits
    <2>2. CASE RequestFails \/ RelayFails
      BY <2>2 DEF RequestFails, RelayFails, Fail, Closes, Exits
    <2>3. CASE Detached \/ CopyIn \/ CopyOut
      BY <2>3 DEF Detached, CopyIn, CopyOut, End, Closes, Exits, Sends
    <2>4. CASE ServePty \/ ServeAttached
      BY <2>4 DEF ServePty, ServeAttached
    <2>5. QED
      BY <2>1, <2>2, <2>3, <2>4 DEF AttachStep
  <1>2. late = {} /\ ~Selecting
    BY <1>1 DEF CommandInv, ControlInv
  <1>3. hits = <<>>
    <2>1. pc \in {"explain", "report"} => req = "ok"
      BY DEF AttachStep, Explain, Open, Attached, Returns, Detached, Printed, RequestFails,
         RelayFails, CopyIn, ReadSignal, CopyOut, ServePty, ServeAttached
    <2>2. QED
      BY <1>1, <2>1 DEF CommandInv, ControlInv
  <1>4. QED
    BY <1>1, <1>2, <1>3, RelayKeeps

\* Every step keeps the invariant of the command.
LEMMA CommandStep == AttachTypeOK /\ CommandInv /\ [Next]_allVars => CommandInv'
  <1> SUFFICES ASSUME AttachTypeOK, CommandInv, [Next]_allVars PROVE CommandInv'
    OBVIOUS
  <1>1. CASE BeamctlStep
    BY <1>1, ClientKeeps DEF BeamctlStep
  <1>2. CASE AttachStep \/ CopyOut \/ ServePty \/ ServeAttached
    BY <1>2, RelayStepKeeps
  <1>3. CASE ServerStep
    BY <1>3, ServerKeeps
  <1>4. CASE WorldStep
    BY <1>4, WorldEvolves, TableKeeps
  <1>5. CASE (\E s \in {"SIGINT", "SIGTSTP"} : SignalArrives(s)) \/ Prints
    BY <1>5, BeamctlStutters DEF SignalArrives, Prints
  <1>6. CASE UNCHANGED allVars
    BY <1>6, BeamctlStutters DEF allVars
  <1>7. QED
    BY <1>1, <1>2, <1>3, <1>4, <1>5, <1>6 DEF Next

-----------------------------------------------------------------------------
(* Types, and the terminal.                                                *)

\* The type invariant in three parts: what the command knows, where it is, what attach holds.
CommandTypes ==
    /\ table \in [Names -> Service]
    /\ changes \in 0..MaxChanges
    /\ cmd \in Commands
    /\ listed \subseteq Names /\ todo \subseteq Names
    /\ target \in Names \cup Arguments
    /\ shown \in [labels : LabelSets, gen : Nat]
    /\ \A r \in late : r.op \in Operations \ {"Show"}
    /\ gens \in [Names -> Nat]
    /\ hits \in Seq([asked : Names \cup Arguments, op : Operations \ {"Start", "Show"}, name : Names,
                      gen : Nat, shown : Nat, labels : LabelSets])
PhaseTypes ==
    /\ pc \in Requests \cup {"idle", "next", "getpty", "notify", "relay", "signal", "detach",
                            "done"}
    /\ req \in {"none", "sent", "ok", "error"}
    /\ exit \in {"none", "ok", "failed", "interrupted", "killed"}
    /\ masked \in BOOLEAN
    /\ (req = "none") <=> (pc \in {"idle", "next", "relay", "done"})
    /\ (exit = "none") <=> (pc # "done")
    /\ masked <=> (pc \in {"notify", "relay", "signal", "detach"})
HeldTypes ==
    /\ pty \subseteq Nat \X Nat /\ Cardinality(pty) <= 1
    /\ tty \in {"user", "raw"}
    /\ sigs \subseteq {"SIGINT", "SIGTSTP"}
    /\ output \in {"none", "new", "stale"}
    /\ hangup \in BOOLEAN /\ dropped \in BOOLEAN

\* The type invariant in three parts.
LEMMA TypeParts == AttachTypeOK <=> CommandTypes /\ PhaseTypes /\ HeldTypes
  BY DEF AttachTypeOK, CommandTypes, PhaseTypes, HeldTypes

\* At most one.
LEMMA AtMostOne ==
    /\ Cardinality({}) <= 1
    /\ \A x : Cardinality({x}) <= 1
  BY FS_EmptySet, FS_Singleton

\* A step that leaves attach's part alone: beamctl stays where it is, or gets its answer.
LEMMA PhaseStays ==
    ASSUME PhaseTypes, TerminalRestored, UNCHANGED <<masked, tty, pc, exit>>,
           req' = req \/ (req = "sent" /\ req' \in {"ok", "error"})
    PROVE  PhaseTypes' /\ TerminalRestored'
  <1>1. PhaseTypes'
    BY DEF PhaseTypes
  <1>2. TerminalRestored'
    BY DEF TerminalRestored
  <1>3. QED
    BY <1>1, <1>2

\* It goes on to something else, and is not yet in attach.
LEMMA PhaseMoves ==
    ASSUME PhaseTypes, HeldTypes, TerminalRestored, UNCHANGED <<masked, tty>>,
           pc \notin {"notify", "relay", "signal", "detach", "done"},
           \/ pc' = "done" /\ req' = "none" /\ exit' \in {"ok", "failed"}
           \/ pc' \in Requests \cup {"getpty"} /\ req' = "sent" /\ exit' = exit
           \/ pc' = "next" /\ req' = "none" /\ exit' = exit
    PROVE  PhaseTypes' /\ TerminalRestored'
  <1>1. masked = FALSE /\ exit = "none" /\ tty = "user"
    BY DEF PhaseTypes, HeldTypes, TerminalRestored
  <1>2. CASE pc' = "done" /\ req' = "none" /\ exit' \in {"ok", "failed"}
    <2>1. PhaseTypes'
      BY <1>1, <1>2 DEF PhaseTypes
    <2>2. TerminalRestored'
      BY <1>1, <1>2 DEF TerminalRestored
    <2>3. QED
      BY <2>1, <2>2
  <1>3. CASE pc' \in Requests \cup {"getpty"} /\ req' = "sent" /\ exit' = exit
    <2>1. pc' \in {"create", "list", "show", "act", "explain", "report", "getpty"}
      BY <1>3 DEF Requests
    <2>2. PhaseTypes'
      BY <1>1, <1>3, <2>1 DEF PhaseTypes
    <2>3. TerminalRestored'
      BY <1>1, <2>1 DEF TerminalRestored
    <2>4. QED
      BY <2>2, <2>3
  <1>4. CASE pc' = "next" /\ req' = "none" /\ exit' = exit
    <2>1. PhaseTypes'
      BY <1>1, <1>4 DEF PhaseTypes
    <2>2. TerminalRestored'
      BY <1>1, <1>4 DEF TerminalRestored
    <2>3. QED
      BY <2>1, <2>2
  <1>5. QED
    BY <1>2, <1>3, <1>4

\* The command's own steps.
LEMMA ClientTypes ==
    ASSUME AttachTypeOK, TerminalRestored, CommandInv, ClientStep, UNCHANGED attachVars
    PROVE  AttachTypeOK' /\ TerminalRestored'
  <1>1. CommandTypes /\ PhaseTypes /\ HeldTypes
    BY TypeParts
  <1>2. HeldTypes' /\ masked' = masked /\ tty' = tty
    BY <1>1 DEF HeldTypes, attachVars
  <1>3. PhaseTypes' /\ TerminalRestored'
    <2>1. CASE Run(cmd)
      BY <1>1, <1>2, <2>1, PhaseMoves DEF Run, Sends, Requests
    <2>2. CASE Matched \/ Filtered \/ ShowNext
      BY <1>1, <1>2, <2>2, PhaseMoves DEF Matched, Filtered, ShowNext, Sends, Advances, Requests
    <2>3. CASE Shown \/ Acted
      BY <1>1, <1>2, <2>3, PhaseMoves DEF Shown, Acted, Sends, Advances, Exits, Requests
    <2>4. CASE AllDone \/ Created
      BY <1>1, <1>2, <2>4, PhaseMoves DEF AllDone, Created, Sends, Exits, Requests
    <2>5. CASE Failed \/ TimedOut
      BY <1>1, <1>2, <2>5, PhaseMoves DEF Failed, TimedOut, Exits, Requests
    <2>6. QED
      BY <2>1, <2>2, <2>3, <2>4, <2>5 DEF ClientStep
  <1>4. NotShown \in [labels : LabelSets, gen : Nat]
    BY BeamctlAssumption DEF NotShown
  <1>5. CommandTypes'
    <2>1. CASE Run(cmd)
      <3>1. target' \in Names \cup Arguments
        BY <1>1, <2>1, CommandFacts, BeamctlAssumption DEF Run, CommandTypes
      <3>2. QED
        BY <1>1, <2>1, <3>1 DEF Run, CommandTypes, tableVars
    <2>2. CASE Matched
      <3>1. target' \in Names \cup Arguments
        <4>1. cmd.name \in Names \cup Arguments /\ cmd.name \in Seq(Nat)
          BY <1>1, <2>2, CommandFacts DEF Matched, CommandTypes, Selecting
        <4>2. target' = PrefixMatch(listed, cmd.name) /\ listed \in SUBSET Names
          BY <1>1, <2>2 DEF Matched, CommandTypes
        <4>3. QED
          BY <4>1, <4>2, PrefixMatchIs
      <3>2. QED
        BY <1>1, <2>2, <3>1 DEF Matched, CommandTypes, tableVars
    <2>3. CASE ShowNext
      <3>1. First(todo) \in Names
        BY <1>1, <2>3, FirstIs DEF ShowNext, CommandTypes
      <3>2. QED
        BY <1>1, <2>3, <3>1 DEF ShowNext, CommandTypes, tableVars
    <2>4. CASE Filtered \/ Shown \/ Acted \/ AllDone \/ Created \/ Failed
      <3>1. shown' \in [labels : LabelSets, gen : Nat] /\ todo' \subseteq Names
        BY <1>1, <1>4, <2>4 DEF Filtered, Shown, Acted, AllDone, Created, Failed, Advances,
           CommandTypes
      <3>2. UNCHANGED <<table, changes, cmd, listed, target, late, gens, hits>>
        BY <2>4 DEF Filtered, Shown, Acted, AllDone, Created, Failed, tableVars
      <3>3. QED
        BY <1>1, <3>1, <3>2 DEF CommandTypes
    <2>5. CASE TimedOut
      <3>1. UNCHANGED <<table, changes, cmd, listed, todo, target, shown, gens, hits>>
        BY <2>5 DEF TimedOut, tableVars
      <3>2. ASSUME NEW r \in late' PROVE r.op \in Operations \ {"Show"}
        <4>1. pc # "list" /\ r \in Arrived /\ r.op # "Show"
          BY <2>5, <3>2 DEF TimedOut, Unanswered
        <4>2. QED
          BY <4>1, ArrivedFacts DEF CommandInv
      <3>3. QED
        BY <1>1, <3>1, <3>2 DEF CommandTypes
    <2>6. QED
      BY <2>1, <2>2, <2>3, <2>4, <2>5 DEF ClientStep
  <1>6. AttachTypeOK'
    BY <1>2, <1>3, <1>5 DEF AttachTypeOK, CommandTypes, PhaseTypes, HeldTypes
  <1>7. QED
    BY <1>3, <1>6

\* What is executed is remembered with its type.
LEMMA ExecutedTypes ==
    ASSUME CommandTypes, NEW r, r.op \in Operations \ {"Start", "Show"},
           PermittedMut(r.name), Executed(r)
    PROVE  /\ table' \in [Names -> Service]
           /\ hits' \in Seq([asked : Names \cup Arguments, op : Operations \ {"Start", "Show"},
                             name : Names, gen : Nat, shown : Nat, labels : LabelSets])
  <1> DEFINE h == [asked |-> target, op |-> r.op, name |-> r.name, gen |-> table[r.name].gen,
                   shown |-> shown.gen, labels |-> table[r.name].labels]
             H == [asked : Names \cup Arguments, op : Operations \ {"Start", "Show"},
                   name : Names, gen : Nat, shown : Nat, labels : LabelSets]
  <1>1. TableEvolves /\ r.name \in Names
    BY ExecutedEvolves DEF CommandTypes
  <1>2. table[r.name] \in Service /\ shown.gen \in Nat /\ target \in Names \cup Arguments
    BY <1>1 DEF CommandTypes
  <1>3. h \in H
    BY <1>1, <1>2, ServiceFacts
  <1>4. hits' = Append(hits, h) /\ hits \in Seq(H)
    BY DEF Executed, CommandTypes
  <1> HIDE DEF h, H
  <1>5. hits' \in Seq(H)
    BY <1>3, <1>4, AppendProperties
  <1>6. QED
    BY <1>1, <1>5 DEF TableEvolves, H

\* The answers of beam-init.
LEMMA ServerTypes ==
    ASSUME AttachTypeOK, TerminalRestored, CommandInv, ServerStep, UNCHANGED attachVars
    PROVE  AttachTypeOK' /\ TerminalRestored'
  <1>1. CommandTypes /\ PhaseTypes /\ HeldTypes
    BY TypeParts
  <1>2. HeldTypes' /\ masked' = masked /\ tty' = tty
    BY <1>1 DEF HeldTypes, attachVars
  <1>3. PhaseTypes' /\ TerminalRestored'
    <2>1. UNCHANGED <<pc, exit>> /\ (req' = req \/ (req = "sent" /\ req' \in {"ok", "error"}))
      BY DEF ServerStep, ServeList, ServeShow, ServeAct, ServeCreate, ServeError, ServeLate, DropLate,
         Answer
    <2>2. QED
      BY <1>1, <1>2, <2>1, PhaseStays
  <1>4. CommandTypes'
    <2>1. CASE ServeList
      <3>1. gens' \in [Names -> Nat] /\ listed' \subseteq Names
        BY <1>1, <2>1, ServiceFacts DEF ServeList, CommandTypes
      <3>2. QED
        BY <1>1, <2>1, <3>1 DEF ServeList, CommandTypes, tableVars
    <2>2. CASE ServeShow
      <3>1. shown' \in [labels : LabelSets, gen : Nat]
        <4>1. PICK r : /\ Permitted(r.name)
                       /\ shown' = IF pc = "show"
                                   THEN [labels |-> table[r.name].labels, gen |-> table[r.name].gen]
                                   ELSE shown
          BY <2>2 DEF ServeShow
        <4>2. r.name \in Names /\ table[r.name] \in Service
          BY <1>1, <4>1 DEF Permitted, Known, CommandTypes
        <4>3. table[r.name].labels \in LabelSets /\ table[r.name].gen \in Nat
          BY <4>2, ServiceFacts
        <4>4. QED
          BY <1>1, <4>1, <4>3 DEF CommandTypes
      <3>2. QED
        BY <1>1, <2>2, <3>1 DEF ServeShow, CommandTypes, tableVars
    <2>3. CASE ServeAct
      <3>1. PICK r \in Arrived :
              r.op \notin {"Start", "Show"} /\ PermittedMut(r.name) /\ Executed(r)
        BY <2>3 DEF ServeAct
      <3>2. /\ pc # "list"
            /\ UNCHANGED <<changes, cmd, listed, todo, target, shown, late, gens>>
        BY <2>3 DEF ServeAct
      <3>3. r.op \in Operations \ {"Start", "Show"}
        BY <3>1, <3>2, ArrivedFacts DEF CommandInv
      <3>4. /\ table' \in [Names -> Service]
            /\ hits' \in Seq([asked : Names \cup Arguments, op : Operations \ {"Start", "Show"},
                              name : Names, gen : Nat, shown : Nat, labels : LabelSets])
        BY <1>1, <3>1, <3>3, ExecutedTypes
      <3>5. QED
        BY <1>1, <3>2, <3>4 DEF CommandTypes
    <2>4. CASE ServeCreate
      <3>1. PICK r \in Arrived : r.op = "Start" /\ Creates(r.name)
        BY <2>4 DEF ServeCreate
      <3>2. /\ pc # "list"
            /\ UNCHANGED <<changes, cmd, listed, todo, target, shown, late, gens, hits>>
        BY <2>4 DEF ServeCreate
      <3>3. r.name \in Names
        BY <3>1, <3>2, ArrivedFacts DEF CommandInv
      <3>4. table' \in [Names -> Service]
        BY <1>1, <3>1, <3>3, CreatesEvolves DEF CommandTypes, TableEvolves
      <3>5. QED
        BY <1>1, <3>2, <3>4 DEF CommandTypes
    <2>5. CASE ServeError \/ DropLate
      <3>1. /\ UNCHANGED <<table, changes, cmd, listed, todo, target, shown, gens, hits>>
            /\ late' \in {late, {}}
        BY <2>5 DEF ServeError, DropLate, tableVars
      <3>2. QED
        BY <1>1, <3>1 DEF CommandTypes
    <2>6. CASE ServeLate
      <3>1. late' = {} /\ UNCHANGED <<changes, cmd, listed, todo, target, shown, gens>>
        BY <2>6 DEF ServeLate
      <3>2. PICK r \in late :
              \/ r.op # "Start" /\ PermittedMut(r.name) /\ Executed(r)
              \/ UNCHANGED <<table, hits>>
              \/ r.op = "Start" /\ Creates(r.name) /\ UNCHANGED hits
        BY <2>6 DEF ServeLate
      <3>3. r.op \in Operations \ {"Show"} /\ (r.op = "Start" => r.name \in Names)
        BY <1>1 DEF CommandTypes, CommandInv, LateInv
      <3>4. /\ table' \in [Names -> Service]
            /\ hits' \in Seq([asked : Names \cup Arguments, op : Operations \ {"Start", "Show"},
                              name : Names, gen : Nat, shown : Nat, labels : LabelSets])
        <4>1. CASE r.op # "Start" /\ PermittedMut(r.name) /\ Executed(r)
          BY <1>1, <3>3, <4>1, ExecutedTypes
        <4>2. CASE UNCHANGED <<table, hits>>
          BY <1>1, <4>2 DEF CommandTypes
        <4>3. CASE r.op = "Start" /\ Creates(r.name) /\ UNCHANGED hits
          BY <1>1, <3>3, <4>3, CreatesEvolves DEF CommandTypes, TableEvolves
        <4>4. QED
          BY <3>2, <4>1, <4>2, <4>3
      <3>5. QED
        BY <1>1, <3>1, <3>4 DEF CommandTypes
    <2>7. QED
      BY <2>1, <2>2, <2>3, <2>4, <2>5, <2>6 DEF ServerStep
  <1>5. AttachTypeOK'
    BY <1>2, <1>3, <1>4 DEF AttachTypeOK, CommandTypes, PhaseTypes, HeldTypes
  <1>6. QED
    BY <1>3, <1>5

\* Other clients, and services that end.
LEMMA WorldTypes ==
    ASSUME AttachTypeOK, TerminalRestored, WorldStep, UNCHANGED attachVars
    PROVE  AttachTypeOK' /\ TerminalRestored'
  <1>1. table' \in [Names -> Service] /\ changes' \in 0..MaxChanges /\ UNCHANGED ctlVars
    BY WorldEvolves DEF TableEvolves
  <1>2. AttachTypeOK'
    BY <1>1 DEF AttachTypeOK, ctlVars, attachVars
  <1>3. TerminalRestored'
    BY <1>1 DEF TerminalRestored, ctlVars, attachVars
  <1>4. QED
    BY <1>2, <1>3

\* The way out of terminal::manage when something fails, and when the relay is over.
LEMMA FailTypes ==
    ASSUME HeldTypes, PhaseTypes, pc \in {"notify", "relay", "signal", "detach"}, Fail
    PROVE  HeldTypes' /\ PhaseTypes' /\ TerminalRestored' /\ UNCHANGED keptVars
  <1>1. /\ masked' = FALSE /\ pty' = {} /\ sigs' = {} /\ output' = "none" /\ hangup' = FALSE
        /\ dropped' = dropped /\ pc' = "done" /\ req' = "none" /\ UNCHANGED keptVars
        /\ \/ exit' = "killed" /\ tty' = tty
           \/ exit' = "failed" /\ tty' = "user"
    BY DEF Fail, Closes, Exits
  <1>2. HeldTypes'
    BY <1>1, AtMostOne DEF HeldTypes
  <1>3. PhaseTypes'
    BY <1>1 DEF PhaseTypes
  <1>4. TerminalRestored'
    BY <1>1 DEF TerminalRestored
  <1>5. QED
    BY <1>1, <1>2, <1>3, <1>4

\* The end of the command gives the terminal back.
LEMMA EndTypes ==
    ASSUME HeldTypes, PhaseTypes, pc \in {"notify", "relay", "signal", "detach"}, End
    PROVE  HeldTypes' /\ PhaseTypes' /\ TerminalRestored' /\ UNCHANGED keptVars
  <1>1. /\ masked' = FALSE /\ pty' = {} /\ sigs' = {} /\ output' = "none" /\ hangup' = FALSE
        /\ dropped' = dropped /\ tty' = "user" /\ UNCHANGED keptVars
        /\ \/ pc' = "done" /\ req' = "none" /\ exit' = "interrupted"
           \/ pc' = "report" /\ req' = "sent" /\ exit' = exit
    BY DEF End, Closes, Exits, Sends
  <1>2. HeldTypes'
    BY <1>1, AtMostOne DEF HeldTypes
  <1>3. PhaseTypes'
    BY <1>1 DEF PhaseTypes, Requests
  <1>4. TerminalRestored'
    BY <1>1 DEF TerminalRestored
  <1>5. QED
    BY <1>1, <1>2, <1>3, <1>4

\* The steps of an attached session.
LEMMA RelayTypes ==
    ASSUME AttachTypeOK, TerminalRestored, AttachStep \/ CopyOut \/ ServePty \/ ServeAttached
    PROVE  AttachTypeOK' /\ TerminalRestored'
  <1>1. CommandTypes /\ PhaseTypes /\ HeldTypes
    BY TypeParts
  <1>2. HeldTypes' /\ PhaseTypes' /\ TerminalRestored' /\ UNCHANGED keptVars
    <2>1. CASE Explain \/ Printed
      <3>1. /\ UNCHANGED keptVars /\ UNCHANGED attachVars
            /\ pc \in {"getpty", "explain", "report"}
            /\ \/ pc' = "done" /\ req' = "none" /\ exit' = "ok"
               \/ pc' \in Requests \cup {"getpty"} /\ req' = "sent" /\ exit' = exit
        BY <2>1 DEF Explain, Printed, Sends, Exits, Requests
      <3>2. PhaseTypes' /\ TerminalRestored'
        BY <1>1, <3>1, PhaseMoves DEF attachVars
      <3>3. QED
        BY <1>1, <3>1, <3>2 DEF HeldTypes, attachVars
    <2>2. CASE Open
      <3>1. /\ pc = "getpty" /\ UNCHANGED keptVars
            /\ UNCHANGED <<pty, tty, sigs, output, hangup, dropped>>
            /\ \/ pc' = "done" /\ req' = "none" /\ exit' = "failed" /\ masked' = masked
               \/ pc' = "notify" /\ req' = "sent" /\ exit' = exit /\ masked' = TRUE
        BY <2>2 DEF Open, Sends, Exits
      <3>2. masked = FALSE /\ exit = "none" /\ tty = "user"
        BY <1>1, <3>1 DEF PhaseTypes, HeldTypes, TerminalRestored
      <3>3. PhaseTypes'
        BY <3>1, <3>2 DEF PhaseTypes
      <3>4. TerminalRestored'
        BY <3>1, <3>2 DEF TerminalRestored
      <3>5. QED
        BY <1>1, <3>1, <3>3, <3>4 DEF HeldTypes
    <2>3. CASE Attached \/ Returns
      <3>1. /\ pc \in {"notify", "signal"} /\ pc' = "relay" /\ req' = "none" /\ UNCHANGED keptVars
            /\ UNCHANGED <<exit, pty, masked, sigs, output, hangup, dropped>>
            /\ tty' \in {"raw", tty}
        BY <2>3 DEF Attached, Returns, attachVars
      <3>2. PhaseTypes'
        BY <1>1, <3>1 DEF PhaseTypes
      <3>3. TerminalRestored'
        BY <1>1, <3>1 DEF TerminalRestored, PhaseTypes
      <3>4. QED
        BY <1>1, <3>1, <3>2, <3>3 DEF HeldTypes
    <2>4. CASE ReadSignal
      <3>1. /\ pc = "relay" /\ pc' \in {"signal", "detach"} /\ req' = "sent" /\ exit' = exit
            /\ sigs' \subseteq sigs /\ UNCHANGED keptVars
            /\ UNCHANGED <<pty, tty, masked, output, hangup, dropped>>
        BY <2>4 DEF ReadSignal, Sends
      <3>2. PhaseTypes'
        BY <1>1, <3>1 DEF PhaseTypes
      <3>3. TerminalRestored'
        BY <1>1, <3>1 DEF TerminalRestored, PhaseTypes
      <3>4. QED
        BY <1>1, <3>1, <3>2, <3>3 DEF HeldTypes
    <2>5. CASE RequestFails \/ RelayFails
      BY <1>1, <2>5, FailTypes DEF RequestFails, RelayFails
    <2>6. CASE Detached \/ CopyIn
      BY <1>1, <2>6, EndTypes DEF Detached, CopyIn
    <2>7. CASE CopyOut
      <3>1. CASE End
        BY <1>1, <2>7, <3>1, EndTypes DEF CopyOut
      <3>2. CASE ~End
        <4>1. /\ UNCHANGED keptVars /\ UNCHANGED <<pc, req, exit, pty, tty, masked, sigs>>
              /\ output' \in {"none", "stale"} /\ hangup' \in {hangup, PtyClosed}
              /\ dropped' \in {dropped, TRUE}
          BY <2>7, <3>2 DEF CopyOut
        <4>2. PtyClosed \in BOOLEAN
          BY DEF PtyClosed
        <4>3. HeldTypes'
          BY <1>1, <4>1, <4>2 DEF HeldTypes
        <4>4. QED
          BY <1>1, <4>1, <4>3, PhaseStays
      <3>3. QED
        BY <3>1, <3>2
    <2>8. CASE ServePty
      <3>1. /\ pc = "getpty" /\ req = "sent" /\ req' = "ok" /\ UNCHANGED keptVars
            /\ UNCHANGED <<pc, exit, tty, masked, sigs, output, hangup, dropped>>
            /\ \/ pty' = {}
               \/ Permitted(target) /\ pty' = {<<table[target].gen, table[target].run>>}
        BY <2>8 DEF ServePty, Answer
      <3>2. pty' \subseteq Nat \X Nat /\ Cardinality(pty') <= 1
        <4>1. CASE pty' = {}
          BY <4>1, AtMostOne
        <4>2. CASE Permitted(target) /\ pty' = {<<table[target].gen, table[target].run>>}
          <5>1. table[target] \in Service
            BY <1>1, <4>2 DEF Permitted, Known, CommandTypes
          <5>2. table[target].gen \in Nat /\ table[target].run \in Nat
            BY <5>1, ServiceFacts
          <5>3. pty' \subseteq Nat \X Nat
            BY <4>2, <5>2
          <5>4. Cardinality(pty') <= 1
            BY <4>2, AtMostOne
          <5>5. QED
            BY <5>3, <5>4
        <4>3. QED
          BY <3>1, <4>1, <4>2
      <3>3. HeldTypes'
        BY <1>1, <3>1, <3>2 DEF HeldTypes
      <3>4. QED
        BY <1>1, <3>1, <3>3, PhaseStays
    <2>9. CASE ServeAttached
      <3>1. /\ UNCHANGED keptVars /\ UNCHANGED attachVars /\ UNCHANGED <<pc, exit>>
            /\ req = "sent" /\ req' \in {"ok", "error"}
        BY <2>9 DEF ServeAttached, Answer
      <3>2. QED
        BY <1>1, <3>1, PhaseStays DEF HeldTypes, attachVars
    <2>10. QED
      BY <2>1, <2>2, <2>3, <2>4, <2>5, <2>6, <2>7, <2>8, <2>9 DEF AttachStep
  <1>3. CommandTypes'
    BY <1>1, <1>2 DEF CommandTypes, keptVars, tableVars
  <1>4. AttachTypeOK'
    BY <1>2, <1>3 DEF AttachTypeOK, CommandTypes, PhaseTypes, HeldTypes
  <1>5. QED
    BY <1>2, <1>4

\* The user's keys, and output of the service.
LEMMA UserTypes ==
    ASSUME AttachTypeOK, TerminalRestored,
           (\E s \in {"SIGINT", "SIGTSTP"} : SignalArrives(s)) \/ Prints
    PROVE  AttachTypeOK' /\ TerminalRestored'
  <1>1. /\ UNCHANGED beamctlVars /\ UNCHANGED <<pty, tty, masked, hangup, dropped>>
        /\ sigs' \subseteq sigs \cup {"SIGINT", "SIGTSTP"} /\ output' \in {output, "new"}
    BY DEF SignalArrives, Prints
  <1>2. AttachTypeOK'
    BY <1>1 DEF AttachTypeOK, beamctlVars
  <1>3. TerminalRestored'
    BY <1>1 DEF TerminalRestored, beamctlVars
  <1>4. QED
    BY <1>2, <1>3

-----------------------------------------------------------------------------
(* The theorems.                                                           *)

\* The invariant holds when a command begins.
LEMMA AttachStart == AttachInit => AttachInv
  <1> SUFFICES ASSUME AttachInit PROVE AttachInv
    OBVIOUS
  <1>1. /\ cmd \in Commands /\ changes = 0 /\ pc = "idle" /\ req = "none"
        /\ listed = {} /\ todo = {}
        /\ target = Bootstrap /\ shown = NotShown /\ exit = "none" /\ late = {}
        /\ gens = [n \in Names |-> 0] /\ hits = <<>>
        /\ pty = {} /\ tty = "user" /\ masked = FALSE /\ sigs = {} /\ output = "none"
        /\ hangup = FALSE /\ dropped = FALSE
    BY DEF AttachInit, BeamctlInit
  <1>2. table \in [Names -> Service]
    <2>1. NoService \in Service
      BY BeamctlAssumption DEF NoService, Service, States
    <2> DEFINE Begun(l, m, s) == [Incarnation(NoService, l, m) EXCEPT !.state = s]
               AtFirst == {NoService} \cup
                          {Begun(l, m, s) : l \in Labels, m \in BOOLEAN, s \in {"up", "ended"}}
    <2>2. ASSUME NEW l \in Labels, NEW m \in BOOLEAN, NEW s \in {"up", "ended"}
          PROVE  Begun(l, m, s) \in Service
      <3>1. l \in LabelSets /\ s \in States
        BY BeamctlAssumption DEF Labels, States
      <3>2. QED
        BY <2>1, <3>1, ServiceFacts
    <2>3. table \in [Names -> AtFirst]
      BY DEF AttachInit, BeamctlInit
    <2>4. AtFirst \subseteq Service
      <3> HIDE DEF Begun
      <3>1. QED
        BY <2>1, <2>2
    <2> HIDE DEF AtFirst
    <2>5. QED
      BY <2>3, <2>4
  <1>3. NotShown \in [labels : LabelSets, gen : Nat]
    BY BeamctlAssumption DEF NotShown
  <1>4. CommandTypes
    BY <1>1, <1>2, <1>3, AtMostOne, BeamctlAssumption DEF CommandTypes
  <1>5. PhaseTypes /\ TerminalRestored
    BY <1>1 DEF PhaseTypes, TerminalRestored
  <1>6. HeldTypes
    BY <1>1, AtMostOne DEF HeldTypes
  <1>7. ControlInv /\ TargetInv /\ LateInv
    BY <1>1 DEF ControlInv, TargetInv, LateInv, Pending, Acting
  <1>8. GensInv
    <2>1. ASSUME NEW n \in Names PROVE gens[n] <= table[n].gen
      <3>1. table[n].gen \in Nat /\ gens[n] = 0
        BY <1>1, <1>2, ServiceFacts
      <3>2. QED
        BY <3>1
    <2>2. QED
      BY <2>1 DEF GensInv
  <1>9. HitsAreIntended /\ SelectionIsComplete
    BY <1>1 DEF HitsAreIntended, SelectionIsComplete
  <1>10. QED
    BY <1>4, <1>5, <1>6, <1>7, <1>8, <1>9, TypeParts DEF AttachInv, CommandInv

\* Every step of the command, of the session and of the services keeps it.
LEMMA AttachStepKeeps == AttachInv /\ [Next]_allVars => AttachInv'
  <1> SUFFICES ASSUME AttachInv, [Next]_allVars PROVE AttachInv'
    OBVIOUS
  <1>1. AttachTypeOK /\ CommandInv /\ TerminalRestored
    BY DEF AttachInv
  <1>2. CommandInv'
    BY <1>1, CommandStep
  <1>3. AttachTypeOK' /\ TerminalRestored'
    <2>1. CASE BeamctlStep
      BY <1>1, <2>1, ClientTypes DEF BeamctlStep
    <2>2. CASE AttachStep \/ CopyOut \/ ServePty \/ ServeAttached
      BY <1>1, <2>2, RelayTypes
    <2>3. CASE ServerStep /\ UNCHANGED attachVars
      BY <1>1, <2>3, ServerTypes
    <2>4. CASE WorldStep /\ UNCHANGED attachVars
      BY <1>1, <2>4, WorldTypes
    <2>5. CASE (\E s \in {"SIGINT", "SIGTSTP"} : SignalArrives(s)) \/ Prints
      BY <1>1, <2>5, UserTypes
    <2>6. CASE UNCHANGED allVars
      <3>1. AttachTypeOK'
        BY <1>1, <2>6 DEF AttachTypeOK, allVars, beamctlVars, attachVars
      <3>2. TerminalRestored'
        BY <1>1, <2>6 DEF TerminalRestored, allVars, beamctlVars, attachVars
      <3>3. QED
        BY <3>1, <3>2
    <2>7. QED
      BY <2>1, <2>2, <2>3, <2>4, <2>5, <2>6 DEF Next
  <1>4. QED
    BY <1>2, <1>3 DEF AttachInv

\* The inductive invariant holds in every reachable state, for any names, arguments, selectors
\* and labels, however often services are pruned, created and restarted meanwhile.
THEOREM AttachInvariant == Spec => []AttachInv
  BY AttachStart, AttachStepKeeps, PTL DEF Spec

\* Type correctness of beamctl and attach.
THEOREM AttachTypes == Spec => []AttachTypeOK
  <1>1. AttachInv => AttachTypeOK
    BY DEF AttachInv
  <1>2. QED
    BY <1>1, AttachInvariant, PTL

\* beamctl makes one request about a name and only about names that were meant, and unless a URL
\* changes the name this is the service that is touched: even if the request is executed after
\* beamctl gave up, and services are replaced while it works.
THEOREM CommandHitsWhatWasMeant == Spec => []HitsAreIntended
  <1>1. AttachInv => HitsAreIntended
    BY DEF AttachInv, CommandInv
  <1>2. QED
    BY <1>1, AttachInvariant, PTL

\* A selector command leaves out no service that it has passed and whose name a URL leaves as it
\* is, and has made no request about one that it has not come to.
THEOREM SelectionIsWorkedThrough == Spec => []SelectionIsComplete
  <1>1. AttachInv => SelectionIsComplete
    BY DEF AttachInv, CommandInv
  <1>2. QED
    BY <1>1, AttachInvariant, PTL

\* attach leaves no terminal in raw mode, save for the SIGINT that Fail describes.
THEOREM TerminalIsRestored == Spec => []TerminalRestored
  <1>1. AttachInv => TerminalRestored
    BY DEF AttachInv
  <1>2. QED
    BY <1>1, AttachInvariant, PTL

\* keys_match's comparison of two sequences of values tells exactly whether a service has all
\* the selected labels.
THEOREM KeysMatchIsSelected ==
    \A sel \in Selectors : \A labels : KeysMatch(sel, labels) <=> Selected(sel, labels)
  BY KeysMatchIs

\* prefix_match, with its split_off, take_while and two calls of next, gives the only listed
\* name that starts with what was typed if there is exactly one and it is not the bootstrap
\* service; otherwise it gives what was typed.
THEOREM PrefixMatchIsUnique ==
    \A names \in SUBSET Names, arg \in Seq(Nat) :
        \/ /\ PrefixMatch(names, arg) \in names \ {Bootstrap}
           /\ {n \in names : IsPrefix(arg, n)} = {PrefixMatch(names, arg)}
        \/ /\ PrefixMatch(names, arg) = arg
           /\ \A n \in names \ {Bootstrap} : {m \in names : IsPrefix(arg, m)} # {n}
  BY PrefixMatchIs
=============================================================================
