------------------------ MODULE TransactionCommitProofs ------------------------
(***************************************************************************)
(* What TransactionCommit promises, for any participants and any maxima.   *)
(***************************************************************************)
EXTENDS TransactionCommit, SequenceTheorems, WellFoundedInduction, TLAPS

Cur == cycles[Depth]

\* The phases that call hooks of the current cycle.
Working == {"preCommit", "settled", "commit1", "commit1Wait", "commit2", "commit2Wait",
            "rollback", "rollbackWait"}

-----------------------------------------------------------------------------
(***************************************************************************)
(* What holds of one cycle.                                                *)
(***************************************************************************)

Never(c, hook) == \A p \in Participants : ~HasRun(c, p, hook)
NoFailure(c, hook) == \A p \in Participants : <<hook, FALSE>> \notin c.ran[p]
Only(c, results) == \A p \in Participants : c.ran[p] \subseteq results

\* Whoever took part in pre-commit has accepted the settled values.
AllSettled(c) ==
    \A q \in Participants : HasRun(c, q, "preCommit") => <<"settled", TRUE>> \in c.ran[q]

\* TruthfulOutcome, SettledBeforeWrites and PointOfNoReturn of one cycle.
Truthful(c) ==
    /\ c.outcome = "committed" =>
          \A p \in Participants :
              /\ p \in Elements(c.reportees) => <<"commit2", TRUE>> \in c.ran[p]
              /\ <<"commit2", FALSE>> \notin c.ran[p] /\ ~HasRun(c, p, "rollback")
    /\ c.outcome = "rolled back" =>
          \A p \in Participants :
              /\ ~HasRun(c, p, "commit2")
              /\ c.ran[p] # {} => <<"rollback", TRUE>> \in c.ran[p]
    /\ c.outcome = "inconsistent" =>
          \E p \in Participants : {<<"commit2", FALSE>>, <<"rollback", FALSE>>} \cap c.ran[p] # {}

InOrder(c) ==
    /\ Never(c, "commit1") \/ AllSettled(c)
    /\ Never(c, "commit2") \/ (NoFailure(c, "commit1") /\ Never(c, "rollback"))

\* A cycle that has ended: its outcome is true, and who was reached will be told, once.
Finished(c) ==
    /\ c.outcome # Undefined /\ Truthful(c) /\ InOrder(c)
    /\ \A i, j \in 1 .. Len(c.reportees) : c.reportees[i] = c.reportees[j] => i = j
    /\ \A p \in Participants :
          HasRun(c, p, "commit2") \/ HasRun(c, p, "rollback") => p \in Elements(c.reportees)

-----------------------------------------------------------------------------
(***************************************************************************)
(* The inductive invariant.                                                *)
(***************************************************************************)

\* Whom the loop under way has reached.
Reached == {roster[i] : i \in 1 .. pos - 1}

\* Everyone who was reached has run the hook or will, and a failure is noticed.
Tracks(hook) ==
    /\ \A p \in Participants : p \in Reached <=> p \in pending \/ HasRun(Cur, p, hook)
    /\ failed <=> ~NoFailure(Cur, hook)

InPreCommit == /\ locks /\ pending = {} /\ Only(Cur, {<<"preCommit", TRUE>>})

InSettled ==
    /\ locks /\ pending = {}
    /\ Only(Cur, {<<"preCommit", TRUE>>, <<"settled", TRUE>>})
    /\ \A p \in Reached : <<"settled", TRUE>> \in Cur.ran[p]

InCommit1 ==
    /\ locks /\ pending \subseteq Reached
    /\ AllSettled(Cur) /\ Never(Cur, "commit2") /\ Never(Cur, "rollback")
    /\ failed \/ NoFailure(Cur, "commit1")

InCommit2 ==
    /\ locks
    /\ AllSettled(Cur) /\ NoFailure(Cur, "commit1") /\ Never(Cur, "rollback")
    /\ Tracks("commit2")

InRollback ==
    /\ locks \/ Only(Cur, {<<"rollback", TRUE>>, <<"rollback", FALSE>>})
    /\ InOrder(Cur) /\ Never(Cur, "commit2")
    /\ Tracks("rollback")

\* A cycle under way has no outcome, and only participants of the transaction have run
\* hooks: when a rollback has reached everybody, it has reached whoever has.
Present ==
    /\ pc = "user" => cycles = <<>>
    /\ pc \in {"user", "postCommit"} => (locks <=> status = "Exclusive")
    /\ pc \in Working =>
          /\ Depth > 0 /\ pos \in 1 .. Len(roster) + 1
          /\ Cur.outcome = Undefined
          /\ \A p \in Participants : Cur.ran[p] # {} => p \in Elements(roster)
    /\ pc = "rollbackWait" => \A p \in Participants : Cur.ran[p] # {} => p \in Reached
    /\ pc \notin Working => pending = {}
    /\ pc = "postCommit" => Depth > 0 /\ pos \in 1 .. Len(Cur.reportees) + 1
    /\ pc = "preCommit" => InPreCommit
    /\ pc = "settled" => InSettled
    /\ pc \in {"commit1", "commit1Wait"} => InCommit1
    /\ pc \in {"commit2", "commit2Wait"} => InCommit2
    /\ pc \in {"rollback", "rollbackWait"} => InRollback

Distinct == \A i, j \in 1 .. Len(roster) : roster[i] = roster[j] => i = j

Past == \A i \in 1 .. Depth : i < Depth \/ pc \notin Working => Finished(cycles[i])

\* Who of the cycle's reportees has been told, and that those of no other cycle have.
ToldFirst(c, n) ==
    \A p \in Participants : c.told[p] = IF \E j \in 1 .. n : c.reportees[j] = p THEN 1 ELSE 0

Told ==
    /\ \A i \in 1 .. Depth :
          /\ cycles[i].concluded => ToldFirst(cycles[i], Len(cycles[i].reportees))
          /\ ~cycles[i].concluded /\ ~(pc = "conclusion" /\ i = Reporting) =>
                ToldFirst(cycles[i], 0)
    /\ pc \in Working => ~Cur.concluded
    /\ pc = "conclusion" /\ Reporting > 0 =>
          /\ pos \in 1 .. Len(cycles[Reporting].reportees) + 1
          /\ ToldFirst(cycles[Reporting], pos - 1)
    /\ pc = "destroyed" => \A i \in 1 .. Depth : cycles[i].concluded

\* The last cycle, one more than the maximum, is the rollback of reject.
Bounded ==
    Depth > MAX_CHAINED_COMMITS => \/ pc \in {"rollback", "rollbackWait"}
                                   \/ pc \in {"conclusion", "destroyed"} /\ ~locks

Inv == TypeOK /\ Distinct /\ Present /\ Past /\ Told /\ Bounded

-----------------------------------------------------------------------------
(***************************************************************************)
(* Sequences of cycles.                                                    *)
(***************************************************************************)

\* Every set of naturals that is not empty has a least member.
LEMMA LeastNatural ==
    ASSUME NEW T \in SUBSET Nat, T # {}
    PROVE  \E x \in T : \A y \in T : x <= y
<1> DEFINE R == {ss \in Nat \X Nat : ss[1] < ss[2]}
<1>1. IsWellFoundedOn(R, Nat)
  BY NatLessThanWellFounded DEF OpToRel
<1> HIDE DEF R
<1>2. PICK x \in T : \A y \in T : <<y, x>> \notin R
  BY <1>1, WFMin
<1>3. \A y \in T : x <= y
  <2> TAKE y \in T
  <2>1. <<y, x>> \in R <=> y < x
    BY DEF R
  <2> QED
    BY <1>2, <2>1
<1> QED
  BY <1>3

\* And one that is bounded has a greatest.
LEMMA GreatestNatural ==
    ASSUME NEW T \in SUBSET Nat, T # {}, NEW b \in Nat, \A y \in T : y <= b
    PROVE  \E x \in T : \A y \in T : y <= x
<1> DEFINE U == {n \in Nat : b - n \in T}
<1>1. \A y \in T : b - y \in Nat /\ b - (b - y) = y
  OBVIOUS
<1>2. \A y \in T : b - y \in U
  BY <1>1
<1>3. PICK n \in U : \A m \in U : n <= m
  <2>1. U \in SUBSET Nat /\ U # {}
    BY <1>2
  <2> HIDE DEF U
  <2> QED
    BY <2>1, LeastNatural
<1>4. \A y \in T : y <= b - n
  BY <1>1, <1>2, <1>3
<1> QED
  BY <1>3, <1>4

\* The cycles, each by itself.
LEMMA CyclesType ==
    ASSUME TypeOK
    PROVE  /\ cycles \in Seq(CycleType) /\ Depth \in Nat
           /\ \A i \in 1 .. Depth : cycles[i] \in CycleType
  BY ElementOfSeq DEF TypeOK, Depth

\* The cycle that reports is the innermost one that has not.
OpenReports ==
    /\ Reporting \in 0 .. Depth
    /\ Reporting > 0 => ~cycles[Reporting].concluded
    /\ Reporting = 0 => \A i \in 1 .. Depth : cycles[i].concluded

\* There is such a cycle, as long as one has not reported.
LEMMA ReportingOpen ==
    ASSUME TypeOK
    PROVE  OpenReports
<1> DEFINE open == {i \in 1 .. Depth : ~cycles[i].concluded}
<1>1. Depth \in Nat
  BY CyclesType
<1>2. CASE open = {}
  BY <1>1, <1>2 DEF Reporting, OpenReports
<1>3. CASE open # {}
  <2>1. \E i \in open : \A j \in open : j <= i
    <3>1. open \in SUBSET Nat /\ \A y \in open : y <= Depth
      BY <1>1
    <3> HIDE DEF open
    <3> QED
      BY <1>1, <1>3, <3>1, GreatestNatural
  <2>2. Reporting = CHOOSE i \in open : \A j \in open : j <= i
    BY <1>3 DEF Reporting
  <2>3. Reporting \in open
    <3> HIDE DEF open
    <3> QED
      BY <2>1, <2>2
  <2> QED
    BY <1>1, <2>3 DEF OpenReports
<1> QED
  BY <1>2, <1>3

\* One cycle is replaced.
LEMMA CycleExcept ==
    ASSUME TypeOK, NEW d \in 1 .. Depth, NEW n \in CycleType, cycles' = [cycles EXCEPT ![d] = n]
    PROVE  /\ cycles' \in Seq(CycleType) /\ Depth' = Depth
           /\ \A j \in 1 .. Depth : cycles'[j] = IF j = d THEN n ELSE cycles[j]
<1>1. cycles \in Seq(CycleType) /\ d \in 1 .. Len(cycles)
  BY CyclesType DEF Depth
<1>2. /\ cycles' \in Seq(CycleType) /\ Len(cycles') = Len(cycles)
      /\ \A j \in 1 .. Len(cycles) : cycles'[j] = IF j = d THEN n ELSE cycles[j]
  BY <1>1, ExceptSeq
<1> QED
  BY <1>2 DEF Depth

\* A hook has run: only the current cycle changes, and only in "ran".
LEMMA RanEffect ==
    ASSUME TypeOK, Depth > 0, NEW p \in Participants, NEW hook \in Hooks, NEW ok \in BOOLEAN,
           Ran(p, hook, ok)
    PROVE  /\ cycles' \in Seq(CycleType) /\ Depth' = Depth
           /\ \A i \in 1 .. Depth - 1 : cycles'[i] = cycles[i]
           /\ Cur'.outcome = Cur.outcome /\ Cur'.reportees = Cur.reportees
           /\ Cur'.concluded = Cur.concluded /\ Cur'.told = Cur.told
           /\ Cur'.ran[p] = Cur.ran[p] \cup {<<hook, ok>>}
           /\ \A q \in Participants \ {p} : Cur'.ran[q] = Cur.ran[q]
<1> DEFINE d == Depth
           c == cycles[d]
           r == [c.ran EXCEPT ![p] = @ \cup {<<hook, ok>>}]
           n == [c EXCEPT !.ran = r]
<1>1. cycles \in Seq(CycleType) /\ d \in 1 .. Len(cycles) /\ c \in CycleType
  BY CyclesType DEF Depth
<1>2. cycles' = [cycles EXCEPT ![d] = n]
  BY <1>1 DEF Ran, Depth, CycleType
<1>3. r \in [Participants -> SUBSET (Hooks \X BOOLEAN)]
  BY <1>1 DEF CycleType
<1>4. n \in CycleType
  <2> HIDE DEF r
  <2> QED
    BY <1>1, <1>3 DEF CycleType
<1>5. /\ n.outcome = c.outcome /\ n.reportees = c.reportees
      /\ n.concluded = c.concluded /\ n.told = c.told /\ n.ran = r
  <2> HIDE DEF r
  <2> QED
    BY <1>1 DEF CycleType
<1>6. /\ cycles' \in Seq(CycleType) /\ Len(cycles') = Len(cycles)
      /\ \A j \in 1 .. Len(cycles) : cycles'[j] = IF j = d THEN n ELSE cycles[j]
  <2> HIDE DEF n, c, d
  <2> QED
    BY <1>1, <1>2, <1>4, ExceptSeq
<1>7. Depth' = d /\ Cur' = n
  BY <1>1, <1>6 DEF Depth, Cur
<1>8. r[p] = c.ran[p] \cup {<<hook, ok>>} /\ \A q \in Participants \ {p} : r[q] = c.ran[q]
  BY <1>1 DEF CycleType
<1>9. \A i \in 1 .. d - 1 : cycles'[i] = cycles[i]
  BY <1>1, <1>6
<1> HIDE DEF r, n
<1> QED
  BY <1>5, <1>6, <1>7, <1>8, <1>9 DEF Cur

\* A step within a cycle leaves the others, and what was told, alone.
LEMMA WorkStep ==
    ASSUME Inv, pc \in Working, pc' \in Working,
           pc \in {"rollback", "rollbackWait"} => pc' \in {"rollback", "rollbackWait"},
           UNCHANGED <<locks, roster>>,
           \/ UNCHANGED cycles
           \/ \E p \in Participants, hook \in Hooks, ok \in BOOLEAN : Ran(p, hook, ok)
    PROVE  /\ cycles' \in Seq(CycleType) /\ Depth' = Depth /\ Depth' <= MAX_CHAINED_COMMITS + 1
           /\ Distinct' /\ Past' /\ Told' /\ Bounded' /\ Cur'.outcome = Undefined
<1>1. /\ cycles' \in Seq(CycleType) /\ Depth' = Depth
      /\ \A i \in 1 .. Depth - 1 : cycles'[i] = cycles[i]
      /\ Cur'.outcome = Cur.outcome /\ Cur'.reportees = Cur.reportees
      /\ Cur'.concluded = Cur.concluded /\ Cur'.told = Cur.told
  <2>1. CASE UNCHANGED cycles
    BY <2>1, CyclesType DEF Depth, Cur, Inv
  <2>2. CASE \E p \in Participants, hook \in Hooks, ok \in BOOLEAN : Ran(p, hook, ok)
    BY <2>2, RanEffect DEF Inv, Present
  <2> QED
    BY <2>1, <2>2
<1>2. Depth \in Nat \ {0} /\ Cur.outcome = Undefined
  BY CyclesType DEF Inv, Present
<1>3. Distinct' /\ Bounded'
  BY <1>1 DEF Inv, Distinct, Bounded, Working
<1>4. Past'
  BY <1>1, <1>2 DEF Inv, Past
<1>5. Told'
  <2>0. pc # "conclusion" /\ pc # "destroyed" /\ pc' # "conclusion" /\ pc' # "destroyed"
    BY DEF Working
  <2> SUFFICES ASSUME NEW i \in 1 .. Depth
               PROVE  /\ cycles'[i].concluded => ToldFirst(cycles'[i], Len(cycles'[i].reportees))
                      /\ ~cycles'[i].concluded => ToldFirst(cycles'[i], 0)
                      /\ ~Cur'.concluded
    BY <1>1, <1>2, <2>0 DEF Told, Inv
  <2>1. /\ cycles[i].concluded => ToldFirst(cycles[i], Len(cycles[i].reportees))
        /\ ~cycles[i].concluded => ToldFirst(cycles[i], 0)
        /\ ~Cur.concluded
    BY <2>0 DEF Told, Inv
  <2>2. CASE i = Depth
    BY <1>1, <2>1, <2>2 DEF ToldFirst, Cur
  <2>3. CASE i # Depth
    BY <1>1, <1>2, <2>1, <2>3
  <2> QED
    BY <2>2, <2>3
<1> QED
  BY <1>1, <1>2, <1>3, <1>4, <1>5 DEF Inv, TypeOK

\* The participant a loop is at.
LEMMA AtPos ==
    ASSUME TypeOK, pos \in 1 .. Len(roster)
    PROVE  /\ roster[pos] \in Participants /\ roster[pos] \in Elements(roster)
           /\ Reached \subseteq Elements(roster)
           /\ \A k \in Nat : k = pos + 1 => {roster[i] : i \in 1 .. k - 1} = Reached \cup {roster[pos]}
<1>1. roster \in Seq(Participants) /\ Len(roster) \in Nat
  BY DEF TypeOK
<1>2. roster[pos] \in Participants
  BY <1>1, ElementOfSeq
<1> QED
  BY <1>1, <1>2 DEF Elements, Reached

\* A loop that has passed the last participant has reached all of them.
LEMMA AllReached ==
    ASSUME TypeOK, pos = Len(roster) + 1
    PROVE  Reached = Elements(roster)
<1>1. Len(roster) \in Nat
  BY DEF TypeOK
<1> QED
  BY <1>1 DEF Elements, Reached

\* A cycle fails and is rolled back.
LEMMA RollbackCycleStep ==
    ASSUME Inv, pc \in Working \ {"rollback", "rollbackWait"}, locks, pending = {}, RollbackCycle,
           \/ UNCHANGED cycles
           \/ \E p \in Participants, hook \in Hooks, ok \in BOOLEAN : Ran(p, hook, ok),
           InOrder(Cur'), Never(Cur', "commit2"), Never(Cur', "rollback"),
           \A p \in Participants : Cur'.ran[p] # {} => p \in Elements(roster)
    PROVE  Inv'
<1>1. /\ pc' = "rollback" /\ status' = "RollingBack" /\ pos' = 1 /\ failed' = FALSE
      /\ pending' = {} /\ UNCHANGED <<locks, roster, mutated, rounds>>
  BY DEF RollbackCycle, Enter
<1>2. /\ cycles' \in Seq(CycleType) /\ Depth' = Depth /\ Depth' <= MAX_CHAINED_COMMITS + 1
      /\ Distinct' /\ Past' /\ Told' /\ Bounded' /\ Cur'.outcome = Undefined
  BY <1>1, WorkStep DEF Working
<1>3. TypeOK'
  BY <1>1, <1>2 DEF Inv, TypeOK
<1>4. Tracks("rollback")'
  <2>1. Reached' = {}
    BY <1>1 DEF Reached
  <2> QED
    BY <1>1, <2>1 DEF Tracks, Never, NoFailure, HasRun
<1>5. Present'
  <2>1. Depth' > 0 /\ pos' \in 1 .. Len(roster') + 1
    BY <1>1, <1>2 DEF Inv, Present, TypeOK
  <2>2. InRollback'
    BY <1>1, <1>4 DEF InRollback
  <2> QED
    BY <1>1, <1>2, <2>1, <2>2 DEF Present, Working
<1> QED
  BY <1>2, <1>3, <1>5 DEF Inv

\* One participant's preCommit runs, or fails the cycle.
LEMMA PreCommitStep ==
    ASSUME Inv, PreCommit
    PROVE  Inv'
<1> DEFINE p == roster[pos]
<1>0. /\ pc = "preCommit" /\ pc \in Working /\ locks /\ pending = {} /\ Depth > 0
      /\ pos \in 1 .. Len(roster) /\ Only(Cur, {<<"preCommit", TRUE>>}) /\ TypeOK
      /\ \A q \in Participants : Cur.ran[q] # {} => q \in Elements(roster)
  BY DEF PreCommit, Inv, Present, InPreCommit, Working, TypeOK
<1>1. p \in Participants /\ p \in Elements(roster)
  BY <1>0, AtPos
<1>2. CASE /\ Ran(p, "preCommit", TRUE) /\ pos' = pos + 1 /\ mutated' \in BOOLEAN
           /\ UNCHANGED <<pc, status, locks, roster, rounds, pending, failed>>
  <2>1. /\ cycles' \in Seq(CycleType) /\ Depth' = Depth /\ Depth' <= MAX_CHAINED_COMMITS + 1
        /\ Distinct' /\ Past' /\ Told' /\ Bounded' /\ Cur'.outcome = Undefined
    BY <1>0, <1>1, <1>2, WorkStep DEF Hooks
  <2>2. /\ Cur'.ran[p] = Cur.ran[p] \cup {<<"preCommit", TRUE>>}
        /\ \A q \in Participants \ {p} : Cur'.ran[q] = Cur.ran[q]
    BY <1>0, <1>1, <1>2, RanEffect DEF Hooks
  <2>3. TypeOK'
    BY <1>0, <1>2, <2>1 DEF TypeOK
  <2>4. InPreCommit' /\ \A q \in Participants : Cur'.ran[q] # {} => q \in Elements(roster')
    BY <1>0, <1>1, <1>2, <2>2 DEF InPreCommit, Only
  <2>5. Depth' > 0 /\ pos' \in 1 .. Len(roster') + 1
    BY <1>0, <1>2, <2>1 DEF TypeOK
  <2>6. Present'
    BY <1>0, <1>2, <2>1, <2>4, <2>5 DEF Present, Working
  <2> QED
    BY <2>1, <2>3, <2>6 DEF Inv
<1>3. CASE RollbackCycle /\ Ran(p, "preCommit", FALSE)
  <2>1. /\ Cur'.ran[p] = Cur.ran[p] \cup {<<"preCommit", FALSE>>}
        /\ \A q \in Participants \ {p} : Cur'.ran[q] = Cur.ran[q]
    BY <1>0, <1>1, <1>3, RanEffect DEF Hooks
  <2>2. Only(Cur', {<<"preCommit", TRUE>>, <<"preCommit", FALSE>>})
    BY <1>0, <1>1, <2>1 DEF Only
  <2>3. InOrder(Cur') /\ Never(Cur', "commit2") /\ Never(Cur', "rollback")
    BY <2>2 DEF InOrder, Never, HasRun, Only
  <2>4. \A q \in Participants : Cur'.ran[q] # {} => q \in Elements(roster)
    BY <1>0, <1>1, <2>1
  <2> QED
    BY <1>0, <1>1, <1>3, <2>3, <2>4, RollbackCycleStep DEF Hooks
<1> QED
  BY <1>2, <1>3 DEF PreCommit, Inv, TypeOK

\* Another pre-commit cycle, or UnsettledStateError.
LEMMA NextPreCommitCycleStep ==
    ASSUME Inv, NextPreCommitCycle
    PROVE  Inv'
<1>0. /\ pc = "preCommit" /\ pc \in Working /\ locks /\ pending = {} /\ Depth > 0
      /\ Only(Cur, {<<"preCommit", TRUE>>}) /\ TypeOK
      /\ \A q \in Participants : Cur.ran[q] # {} => q \in Elements(roster)
  BY DEF NextPreCommitCycle, Inv, Present, InPreCommit, Working
<1>1. CASE /\ rounds < MAX_PRECOMMIT_CYCLES /\ rounds' = rounds + 1
           /\ mutated' = FALSE /\ pos' = 1
           /\ UNCHANGED <<pc, status, locks, roster, pending, failed, cycles>>
  <2>1. /\ cycles' \in Seq(CycleType) /\ Depth' = Depth /\ Depth' <= MAX_CHAINED_COMMITS + 1
        /\ Distinct' /\ Past' /\ Told' /\ Bounded' /\ Cur'.outcome = Undefined
    BY <1>0, <1>1, WorkStep
  <2>2. TypeOK'
    <3>1. rounds' \in 1 .. MAX_PRECOMMIT_CYCLES
      BY <1>0, <1>1, MaximaAssumption DEF TypeOK
    <3>2. pos' \in Nat
      BY <1>1
    <3> QED
      BY <1>0, <1>1, <2>1, <3>1, <3>2 DEF TypeOK
  <2>3. Cur' = Cur
    BY <1>1 DEF Cur, Depth
  <2>4. Depth' > 0 /\ pos' \in 1 .. Len(roster') + 1
    BY <1>0, <1>1, <2>1 DEF TypeOK
  <2>5. Present'
    BY <1>0, <1>1, <2>1, <2>3, <2>4 DEF Present, Working, InPreCommit, Only
  <2> QED
    BY <2>1, <2>2, <2>5 DEF Inv
<1>2. CASE RollbackCycle /\ UNCHANGED cycles
  <2>1. Cur' = Cur
    BY <1>2 DEF Cur, Depth
  <2>2. InOrder(Cur) /\ Never(Cur, "commit2") /\ Never(Cur, "rollback")
    BY <1>0 DEF InOrder, Never, HasRun, Only
  <2> QED
    BY <1>0, <1>2, <2>1, <2>2, RollbackCycleStep
<1> QED
  BY <1>1, <1>2 DEF NextPreCommitCycle

\* Pre-commit is through, and nobody has been asked to settle.
LEMMA PreCommitSettledStep ==
    ASSUME Inv, PreCommitSettled
    PROVE  Inv'
<1>0. /\ pc = "preCommit" /\ pc \in Working /\ locks /\ pending = {} /\ Depth > 0
      /\ Only(Cur, {<<"preCommit", TRUE>>}) /\ TypeOK
      /\ \A q \in Participants : Cur.ran[q] # {} => q \in Elements(roster)
  BY DEF PreCommitSettled, Inv, Present, InPreCommit, Working
<1>1. /\ pc' = "settled" /\ status' = "Settled" /\ pos' = 1 /\ failed' = FALSE
      /\ UNCHANGED <<pending, locks, roster, mutated, rounds, cycles>>
  BY DEF PreCommitSettled, Enter
<1>2. /\ cycles' \in Seq(CycleType) /\ Depth' = Depth /\ Depth' <= MAX_CHAINED_COMMITS + 1
      /\ Distinct' /\ Past' /\ Told' /\ Bounded' /\ Cur'.outcome = Undefined
  BY <1>0, <1>1, WorkStep DEF Working
<1>3. TypeOK'
  BY <1>0, <1>1, <1>2 DEF TypeOK
<1>4. Cur' = Cur /\ Reached' = {}
  BY <1>1 DEF Cur, Depth, Reached
<1>5. InSettled'
  BY <1>0, <1>1, <1>4 DEF InSettled, Only
<1>6. Depth' > 0 /\ pos' \in 1 .. Len(roster') + 1
  BY <1>0, <1>1, <1>2 DEF TypeOK
<1>7. Present'
  BY <1>0, <1>1, <1>2, <1>4, <1>5, <1>6 DEF Present, Working
<1> QED
  BY <1>2, <1>3, <1>7 DEF Inv

\* One participant accepts the settled values or does not.
LEMMA SettledStep ==
    ASSUME Inv, Settled
    PROVE  Inv'
<1> DEFINE p == roster[pos]
           calm == {<<"preCommit", TRUE>>, <<"settled", TRUE>>}
<1>0. /\ pc = "settled" /\ pc \in Working /\ locks /\ pending = {} /\ Depth > 0
      /\ pos \in 1 .. Len(roster) /\ Only(Cur, calm) /\ TypeOK
      /\ \A q \in Participants : Cur.ran[q] # {} => q \in Elements(roster)
      /\ \A q \in Reached : <<"settled", TRUE>> \in Cur.ran[q]
  BY DEF Settled, Inv, Present, InSettled, Working, TypeOK
<1>1. p \in Participants /\ p \in Elements(roster) /\ Reached \subseteq Elements(roster)
  BY <1>0, AtPos
<1>2. Elements(roster) \subseteq Participants
  BY <1>0, ElementOfSeq DEF TypeOK, Elements
<1>3. CASE /\ Ran(p, "settled", TRUE) /\ pos' = pos + 1
           /\ UNCHANGED <<pc, status, locks, roster, mutated, rounds, pending, failed>>
  <2>1. /\ cycles' \in Seq(CycleType) /\ Depth' = Depth /\ Depth' <= MAX_CHAINED_COMMITS + 1
        /\ Distinct' /\ Past' /\ Told' /\ Bounded' /\ Cur'.outcome = Undefined
    BY <1>0, <1>1, <1>3, WorkStep DEF Hooks
  <2>2. /\ Cur'.ran[p] = Cur.ran[p] \cup {<<"settled", TRUE>>}
        /\ \A q \in Participants \ {p} : Cur'.ran[q] = Cur.ran[q]
    BY <1>0, <1>1, <1>3, RanEffect DEF Hooks
  <2>3. TypeOK'
    BY <1>0, <1>3, <2>1 DEF TypeOK
  <2>4. Reached' = Reached \cup {p}
    BY <1>0, <1>3, AtPos DEF Reached
  <2>5. InSettled' /\ \A q \in Participants : Cur'.ran[q] # {} => q \in Elements(roster')
    BY <1>0, <1>1, <1>2, <1>3, <2>2, <2>4 DEF InSettled, Only
  <2>6. Depth' > 0 /\ pos' \in 1 .. Len(roster') + 1
    BY <1>0, <1>3, <2>1 DEF TypeOK
  <2>7. Present'
    BY <1>0, <1>3, <2>1, <2>5, <2>6 DEF Present, Working
  <2> QED
    BY <2>1, <2>3, <2>7 DEF Inv
<1>4. CASE RollbackCycle /\ Ran(p, "settled", FALSE)
  <2>1. /\ Cur'.ran[p] = Cur.ran[p] \cup {<<"settled", FALSE>>}
        /\ \A q \in Participants \ {p} : Cur'.ran[q] = Cur.ran[q]
    BY <1>0, <1>1, <1>4, RanEffect DEF Hooks
  <2>2. Only(Cur', calm \cup {<<"settled", FALSE>>})
    BY <1>0, <1>1, <2>1 DEF Only
  <2>3. InOrder(Cur') /\ Never(Cur', "commit2") /\ Never(Cur', "rollback")
    BY <2>2 DEF InOrder, Never, HasRun, Only
  <2>4. \A q \in Participants : Cur'.ran[q] # {} => q \in Elements(roster)
    BY <1>0, <1>1, <2>1
  <2> QED
    BY <1>0, <1>1, <1>4, <2>3, <2>4, RollbackCycleStep DEF Hooks
<1> QED
  BY <1>3, <1>4 DEF Settled

\* Everybody has accepted the settled values: writing may begin.
LEMMA StartCommit1Step ==
    ASSUME Inv, StartCommit1
    PROVE  Inv'
<1>0. /\ pc = "settled" /\ pc \in Working /\ locks /\ pending = {} /\ Depth > 0
      /\ pos = Len(roster) + 1 /\ TypeOK
      /\ Only(Cur, {<<"preCommit", TRUE>>, <<"settled", TRUE>>})
      /\ \A q \in Participants : Cur.ran[q] # {} => q \in Elements(roster)
      /\ \A q \in Reached : <<"settled", TRUE>> \in Cur.ran[q]
  BY DEF StartCommit1, Inv, Present, InSettled, Working, TypeOK
<1>1. /\ pc' = "commit1" /\ status' = "CommittingPhaseOne" /\ pos' = 1 /\ failed' = FALSE
      /\ UNCHANGED <<pending, locks, roster, mutated, rounds, cycles>>
  BY DEF StartCommit1, Enter
<1>2. /\ cycles' \in Seq(CycleType) /\ Depth' = Depth /\ Depth' <= MAX_CHAINED_COMMITS + 1
      /\ Distinct' /\ Past' /\ Told' /\ Bounded' /\ Cur'.outcome = Undefined
  BY <1>0, <1>1, WorkStep DEF Working
<1>3. TypeOK'
  BY <1>0, <1>1, <1>2 DEF TypeOK
<1>4. Cur' = Cur
  BY <1>1 DEF Cur, Depth
<1>5. AllSettled(Cur)
  BY <1>0, AllReached DEF AllSettled, HasRun
<1>6. Never(Cur, "commit2") /\ Never(Cur, "rollback") /\ NoFailure(Cur, "commit1")
  BY <1>0 DEF Never, NoFailure, HasRun, Only
<1>7. InCommit1'
  BY <1>0, <1>1, <1>4, <1>5, <1>6 DEF InCommit1
<1>8. Depth' > 0 /\ pos' \in 1 .. Len(roster') + 1
  BY <1>0, <1>1, <1>2 DEF TypeOK
<1>9. Present'
  BY <1>0, <1>1, <1>2, <1>4, <1>7, <1>8 DEF Present, Working
<1> QED
  BY <1>2, <1>3, <1>9 DEF Inv

-----------------------------------------------------------------------------
(***************************************************************************)
(* commit1, commit2 and rollback.                                          *)
(***************************************************************************)

Phases == {"commit1", "commit2", "rollback"}

\* What the result of a hook that writes leaves as it was.
LEMMA HookResult ==
    ASSUME TypeOK, Depth > 0, NEW p \in Participants, NEW hook \in Phases, NEW ok \in BOOLEAN,
           Ran(p, hook, ok)
    PROVE  /\ AllSettled(Cur) => AllSettled(Cur')
           /\ \A h : h # hook /\ Never(Cur, h) => Never(Cur', h)
           /\ \A h : (h # hook \/ ok) /\ NoFailure(Cur, h) => NoFailure(Cur', h)
           /\ ~ok => ~NoFailure(Cur', hook)
           /\ ~NoFailure(Cur, hook) => ~NoFailure(Cur', hook)
           /\ \A q \in Participants : HasRun(Cur', q, hook) <=> HasRun(Cur, q, hook) \/ q = p
           /\ \A q \in Participants : Cur'.ran[q] # {} => Cur.ran[q] # {} \/ q = p
           /\ hook = "rollback" /\ InOrder(Cur) /\ Never(Cur, "commit2") => InOrder(Cur')
<1>1. /\ Cur'.ran[p] = Cur.ran[p] \cup {<<hook, ok>>}
      /\ \A q \in Participants \ {p} : Cur'.ran[q] = Cur.ran[q]
  BY RanEffect DEF Hooks, Phases
<1>2. \A q \in Participants : \A h : \A b \in BOOLEAN :
         <<h, b>> \in Cur'.ran[q] <=> <<h, b>> \in Cur.ran[q] \/ (q = p /\ h = hook /\ b = ok)
  <2> SUFFICES ASSUME NEW q \in Participants, NEW h, NEW b \in BOOLEAN
               PROVE  <<h, b>> \in Cur'.ran[q] <=>
                          <<h, b>> \in Cur.ran[q] \/ (q = p /\ h = hook /\ b = ok)
    OBVIOUS
  <2>1. <<h, b>> = <<hook, ok>> <=> h = hook /\ b = ok
    OBVIOUS
  <2> QED
    BY <1>1, <2>1
<1>3. /\ \A q \in Participants : \A h :
            HasRun(Cur', q, h) <=> HasRun(Cur, q, h) \/ (q = p /\ h = hook)
      /\ \A q \in Participants : Cur'.ran[q] # {} => Cur.ran[q] # {} \/ q = p
  BY <1>1, <1>2 DEF HasRun
<1>4. AllSettled(Cur) => AllSettled(Cur')
  <2>1. hook # "preCommit" /\ hook # "settled"
    BY DEF Phases
  <2>2. \A q \in Participants : HasRun(Cur', q, "preCommit") => HasRun(Cur, q, "preCommit")
    BY <1>3, <2>1
  <2>3. \A q \in Participants :
           <<"settled", TRUE>> \in Cur.ran[q] => <<"settled", TRUE>> \in Cur'.ran[q]
    BY <1>1
  <2> QED
    BY <2>2, <2>3 DEF AllSettled
<1>5. \A h : h # hook /\ Never(Cur, h) => Never(Cur', h)
  BY <1>3 DEF Never
<1>6. /\ \A h : (h # hook \/ ok) /\ NoFailure(Cur, h) => NoFailure(Cur', h)
      /\ ~ok => ~NoFailure(Cur', hook)
      /\ ~NoFailure(Cur, hook) => ~NoFailure(Cur', hook)
  <2>1. \A q \in Participants : \A h :
           <<h, FALSE>> \in Cur'.ran[q] <=>
               <<h, FALSE>> \in Cur.ran[q] \/ (q = p /\ h = hook /\ ok = FALSE)
    <3> SUFFICES ASSUME NEW q \in Participants, NEW h
                 PROVE  <<h, FALSE>> \in Cur'.ran[q] <=>
                            <<h, FALSE>> \in Cur.ran[q] \/ (q = p /\ h = hook /\ ok = FALSE)
      OBVIOUS
    <3>1. <<h, FALSE>> = <<hook, ok>> <=> h = hook /\ ok = FALSE
      OBVIOUS
    <3> QED
      BY <1>1, <3>1
  <2>2. ok = FALSE <=> ~ok
    OBVIOUS
  <2>3. ASSUME NEW h, h # hook \/ ok, NoFailure(Cur, h)
        PROVE  NoFailure(Cur', h)
    <3>1. ~(h = hook /\ ok = FALSE)
      BY <2>2, <2>3
    <3> QED
      BY <2>1, <2>3, <3>1 DEF NoFailure
  <2>4. ~ok => ~NoFailure(Cur', hook)
    BY <2>1, <2>2 DEF NoFailure
  <2>5. ~NoFailure(Cur, hook) => ~NoFailure(Cur', hook)
    BY <2>1 DEF NoFailure
  <2> QED
    BY <2>3, <2>4, <2>5
<1>7. hook = "rollback" /\ InOrder(Cur) /\ Never(Cur, "commit2") => InOrder(Cur')
  BY <1>4, <1>5 DEF InOrder
<1> QED
  BY <1>3, <1>4, <1>5, <1>6, <1>7

\* The loop's call keeps track of the participant it reaches.
LEMMA TracksCall ==
    ASSUME TypeOK, Depth > 0, NEW hook \in Phases, Tracks(hook),
           NEW p \in Participants, Reached' = Reached \cup {p},
           \/ Ran(p, hook, TRUE) /\ UNCHANGED <<pending, failed>>
           \/ Ran(p, hook, FALSE) /\ failed' = TRUE /\ UNCHANGED pending
           \/ pending' = pending \cup {p} /\ UNCHANGED <<failed, cycles>>
    PROVE  Tracks(hook)'
<1>1. CASE Ran(p, hook, TRUE) /\ UNCHANGED <<pending, failed>>
  <2>1. /\ NoFailure(Cur, hook) <=> NoFailure(Cur', hook)
        /\ \A q \in Participants : HasRun(Cur', q, hook) <=> HasRun(Cur, q, hook) \/ q = p
    BY <1>1, HookResult
  <2> QED
    BY <1>1, <2>1 DEF Tracks
<1>2. CASE Ran(p, hook, FALSE) /\ failed' = TRUE /\ UNCHANGED pending
  <2>1. /\ ~NoFailure(Cur', hook)
        /\ \A q \in Participants : HasRun(Cur', q, hook) <=> HasRun(Cur, q, hook) \/ q = p
    BY <1>2, HookResult
  <2> QED
    BY <1>2, <2>1 DEF Tracks
<1>3. CASE pending' = pending \cup {p} /\ UNCHANGED <<failed, cycles>>
  <2>1. Cur' = Cur
    BY <1>3 DEF Cur, Depth
  <2> QED
    BY <1>3, <2>1 DEF Tracks
<1> QED
  BY <1>1, <1>2, <1>3

\* One that is settled was tracked as pending before.
LEMMA TracksSettle ==
    ASSUME TypeOK, Depth > 0, NEW hook \in Phases, Tracks(hook), UNCHANGED <<roster, pos>>,
           NEW p \in pending, NEW ok \in BOOLEAN, pending' = pending \ {p},
           Ran(p, hook, ok), failed' = (failed \/ ~ok)
    PROVE  Tracks(hook)'
<1>0. p \in Participants /\ failed \in BOOLEAN
  BY DEF TypeOK
<1>1. /\ \A h : (h # hook \/ ok) /\ NoFailure(Cur, h) => NoFailure(Cur', h)
      /\ ~ok => ~NoFailure(Cur', hook)
      /\ ~NoFailure(Cur, hook) => ~NoFailure(Cur', hook)
      /\ \A q \in Participants : HasRun(Cur', q, hook) <=> HasRun(Cur, q, hook) \/ q = p
  BY <1>0, HookResult
<1>2. Reached' = Reached
  BY DEF Reached
<1>3. failed' <=> ~NoFailure(Cur', hook)
  BY <1>0, <1>1 DEF Tracks
<1>4. \A q \in Participants : q \in Reached' <=> q \in pending' \/ HasRun(Cur', q, hook)
  BY <1>0, <1>1, <1>2 DEF Tracks
<1> QED
  BY <1>3, <1>4 DEF Tracks

\* Where nothing but rollback has run, nothing else has after one more of it.
LEMMA OnlyRollback ==
    ASSUME TypeOK, Depth > 0, NEW p \in Participants, NEW ok \in BOOLEAN,
           Ran(p, "rollback", ok), Only(Cur, {<<"rollback", TRUE>>, <<"rollback", FALSE>>})
    PROVE  Only(Cur', {<<"rollback", TRUE>>, <<"rollback", FALSE>>})
<1>1. /\ Cur'.ran[p] = Cur.ran[p] \cup {<<"rollback", ok>>}
      /\ \A q \in Participants \ {p} : Cur'.ran[q] = Cur.ran[q]
  BY RanEffect DEF Hooks
<1>2. <<"rollback", ok>> \in {<<"rollback", TRUE>>, <<"rollback", FALSE>>}
  OBVIOUS
<1> QED
  BY <1>1, <1>2 DEF Only

\* The loop calls one hook.
LEMMA CallHookStep ==
    ASSUME Inv, NEW phase \in Phases, CallHook(phase)
    PROVE  Inv'
<1> DEFINE p == roster[pos]
<1>0. /\ pc = phase /\ pc \in Working /\ Depth > 0 /\ TypeOK
      /\ pos \in 1 .. Len(roster)
      /\ \A q \in Participants : Cur.ran[q] # {} => q \in Elements(roster)
      /\ pos' = pos + 1 /\ UNCHANGED <<status, locks, roster, mutated, rounds>>
  <2>1. pc = phase /\ pc \in Working /\ pos <= Len(roster) /\ TypeOK
    BY DEF CallHook, Working, Phases, Inv
  <2>2. pos' = pos + 1 /\ UNCHANGED <<status, locks, roster, mutated, rounds>>
    BY DEF CallHook
  <2>3. /\ Depth > 0 /\ pos \in 1 .. Len(roster) + 1
        /\ \A q \in Participants : Cur.ran[q] # {} => q \in Elements(roster)
    BY <2>1 DEF Inv, Present
  <2>4. pos \in 1 .. Len(roster)
    BY <2>1, <2>3 DEF TypeOK
  <2> QED
    BY <2>1, <2>2, <2>3, <2>4
<1>1. p \in Participants /\ p \in Elements(roster) /\ Reached' = Reached \cup {p}
  BY <1>0, AtPos DEF Reached
<1>2. /\ pc' = phase \/ (phase = "commit1" /\ pc' = "commit1Wait")
      /\ \/ Ran(p, phase, TRUE) /\ UNCHANGED <<pending, failed>>
         \/ Ran(p, phase, FALSE) /\ failed' = TRUE /\ UNCHANGED pending
         \/ pending' = pending \cup {p} /\ UNCHANGED <<failed, cycles>>
  <2>1. phase = "commit1" => Waiting(phase) = "commit1Wait"
    BY DEF Waiting
  <2>2. \/ Ran(p, phase, TRUE) /\ UNCHANGED <<pc, pending, failed>>
        \/ /\ Ran(p, phase, FALSE) /\ failed' = TRUE /\ UNCHANGED pending
           /\ pc' = IF phase = "commit1" THEN Waiting(phase) ELSE pc
        \/ pending' = pending \cup {p} /\ UNCHANGED <<pc, failed, cycles>>
    BY DEF CallHook
  <2> QED
    BY <1>0, <2>1, <2>2
<1>3. \/ UNCHANGED cycles
      \/ \E q \in Participants, hook \in Hooks, ok \in BOOLEAN : Ran(q, hook, ok)
  BY <1>1, <1>2 DEF Phases, Hooks
<1>4. /\ cycles' \in Seq(CycleType) /\ Depth' = Depth /\ Depth' <= MAX_CHAINED_COMMITS + 1
      /\ Distinct' /\ Past' /\ Told' /\ Bounded' /\ Cur'.outcome = Undefined
  <2>1. pc' \in Working /\ (pc \in {"rollback", "rollbackWait"} => pc' \in {"rollback", "rollbackWait"})
    BY <1>0, <1>2 DEF Working, Phases
  <2> QED
    BY <1>0, <1>3, <2>1, WorkStep
<1>5. TypeOK'
  <2>1. pending' \subseteq Participants /\ failed' \in BOOLEAN /\ pos' \in Nat
    <3>1. pending \subseteq Participants /\ failed \in BOOLEAN /\ pos \in Nat
      BY <1>0 DEF TypeOK
    <3>2. pending' = pending \/ pending' = pending \cup {p}
      BY <1>2
    <3>3. failed' = failed \/ failed' = TRUE
      BY <1>2
    <3>4. pending' \subseteq Participants
      BY <1>1, <3>1, <3>2
    <3>5. failed' \in BOOLEAN
      BY <3>1, <3>3
    <3>6. pos' \in Nat
      BY <1>0, <3>1
    <3> QED
      BY <3>4, <3>5, <3>6
  <2>2. pc' \in Phases \cup {"commit1Wait"}
    BY <1>2 DEF Phases
  <2> QED
    BY <1>0, <1>4, <2>1, <2>2 DEF TypeOK, Phases
<1>6. \A q \in Participants : Cur'.ran[q] # {} => q \in Elements(roster')
  <2>1. CASE UNCHANGED cycles
    BY <1>0, <2>1 DEF Cur, Depth
  <2>2. ASSUME NEW ok \in BOOLEAN, Ran(p, phase, ok)
        PROVE  \A q \in Participants : Cur'.ran[q] # {} => q \in Elements(roster')
    <3>1. \A q \in Participants : Cur'.ran[q] # {} => Cur.ran[q] # {} \/ q = p
      BY <1>0, <1>1, <2>2, HookResult
    <3> QED
      BY <1>0, <1>1, <3>1
  <2> QED
    BY <1>2, <2>1, <2>2
<1>7. Depth' > 0 /\ pos' \in 1 .. Len(roster') + 1
  BY <1>0, <1>4 DEF TypeOK
<1>8. CASE phase = "commit1"
  <2>1. InCommit1
    BY <1>0, <1>8 DEF Inv, Present
  <2>2. pending' \subseteq Reached'
    BY <1>1, <1>2, <2>1 DEF InCommit1
  <2>3. AllSettled(Cur') /\ Never(Cur', "commit2") /\ Never(Cur', "rollback")
    <3>1. CASE UNCHANGED cycles
      BY <2>1, <3>1 DEF InCommit1, Cur, Depth
    <3>2. CASE \E ok \in BOOLEAN : Ran(p, phase, ok)
      BY <1>0, <1>1, <1>8, <2>1, <3>2, HookResult DEF InCommit1
    <3> QED
      BY <1>2, <3>1, <3>2
  <2>4. failed' \/ NoFailure(Cur', "commit1")
    <3>1. CASE UNCHANGED <<failed, cycles>>
      BY <2>1, <3>1 DEF InCommit1, Cur, Depth
    <3>2. CASE Ran(p, phase, TRUE) /\ UNCHANGED failed
      BY <1>0, <1>1, <1>8, <2>1, <3>2, HookResult DEF InCommit1
    <3> QED
      BY <1>2, <3>1, <3>2
  <2>5. InCommit1'
    BY <1>0, <2>1, <2>2, <2>3, <2>4 DEF InCommit1
  <2>6. Present'
    BY <1>2, <1>4, <1>6, <1>7, <1>8, <2>5 DEF Present, Working
  <2> QED
    BY <1>4, <1>5, <2>6 DEF Inv
<1>9. CASE phase = "commit2"
  <2>1. InCommit2
    BY <1>0, <1>9 DEF Inv, Present
  <2>2. Tracks("commit2")'
    BY <1>0, <1>1, <1>2, <1>9, <2>1, TracksCall DEF InCommit2
  <2>3. AllSettled(Cur') /\ NoFailure(Cur', "commit1") /\ Never(Cur', "rollback")
    <3>1. CASE UNCHANGED cycles
      BY <2>1, <3>1 DEF InCommit2, Cur, Depth
    <3>2. CASE \E ok \in BOOLEAN : Ran(p, phase, ok)
      BY <1>0, <1>1, <1>9, <2>1, <3>2, HookResult DEF InCommit2
    <3> QED
      BY <1>2, <3>1, <3>2
  <2>4. InCommit2'
    BY <1>0, <2>1, <2>2, <2>3 DEF InCommit2
  <2>5. Present'
    BY <1>2, <1>4, <1>6, <1>7, <1>9, <2>4 DEF Present, Working
  <2> QED
    BY <1>4, <1>5, <2>5 DEF Inv
<1>10. CASE phase = "rollback"
  <2>1. InRollback
    BY <1>0, <1>10 DEF Inv, Present
  <2>2. Tracks("rollback")'
    BY <1>0, <1>1, <1>2, <1>10, <2>1, TracksCall DEF InRollback
  <2>3. /\ InOrder(Cur') /\ Never(Cur', "commit2")
        /\ locks' \/ Only(Cur', {<<"rollback", TRUE>>, <<"rollback", FALSE>>})
    <3>1. CASE UNCHANGED cycles
      BY <1>0, <2>1, <3>1 DEF InRollback, Cur, Depth
    <3>2. CASE \E ok \in BOOLEAN : Ran(p, phase, ok)
      BY <1>0, <1>1, <1>10, <2>1, <3>2, HookResult, OnlyRollback DEF InRollback
    <3> QED
      BY <1>2, <3>1, <3>2
  <2>4. InRollback'
    BY <2>2, <2>3 DEF InRollback
  <2>5. Present'
    BY <1>2, <1>4, <1>6, <1>7, <1>10, <2>4 DEF Present, Working
  <2> QED
    BY <1>4, <1>5, <2>5 DEF Inv
<1> QED
  BY <1>8, <1>9, <1>10 DEF Phases

\* The names of the phases that wait for the promises of a loop.
LEMMA WaitingPhases ==
    /\ Waiting("commit1") = "commit1Wait" /\ Waiting("commit2") = "commit2Wait"
    /\ Waiting("rollback") = "rollbackWait"
  BY DEF Waiting

\* The loop has called everybody, a rollback whoever has run a hook.
LEMMA EndLoopStep ==
    ASSUME Inv, NEW phase \in Phases, EndLoop(phase)
    PROVE  Inv'
<1>0. /\ pc = phase /\ pc \in Working /\ Depth > 0 /\ TypeOK /\ Cur.outcome = Undefined
      /\ pos = Len(roster) + 1 /\ pc' = Waiting(phase)
      /\ \A q \in Participants : Cur.ran[q] # {} => q \in Elements(roster)
      /\ UNCHANGED <<status, locks, roster, pos, mutated, rounds, pending, failed, cycles>>
  <2>1. pc = phase /\ pc \in Working /\ pos > Len(roster) /\ TypeOK
    BY DEF EndLoop, Working, Phases, Inv
  <2>2. /\ pc' = Waiting(phase)
        /\ UNCHANGED <<status, locks, roster, pos, mutated, rounds, pending, failed, cycles>>
    BY DEF EndLoop
  <2>3. /\ Depth > 0 /\ pos \in 1 .. Len(roster) + 1 /\ Cur.outcome = Undefined
        /\ \A q \in Participants : Cur.ran[q] # {} => q \in Elements(roster)
    BY <2>1 DEF Inv, Present
  <2>4. pos = Len(roster) + 1
    BY <2>1, <2>3 DEF TypeOK
  <2> QED
    BY <2>1, <2>2, <2>3, <2>4
<1>1. /\ phase = "commit1" => pc' = "commit1Wait"
      /\ phase = "commit2" => pc' = "commit2Wait"
      /\ phase = "rollback" => pc' = "rollbackWait"
  BY <1>0, WaitingPhases
<1>2. pc' \in {"commit1Wait", "commit2Wait", "rollbackWait"}
  BY <1>1 DEF Phases
<1>3. /\ cycles' \in Seq(CycleType) /\ Depth' = Depth /\ Depth' <= MAX_CHAINED_COMMITS + 1
      /\ Distinct' /\ Past' /\ Told' /\ Bounded' /\ Cur'.outcome = Undefined
  <2>1. pc' \in Working /\ (pc \in {"rollback", "rollbackWait"} => pc' \in {"rollback", "rollbackWait"})
    BY <1>0, <1>1, <1>2 DEF Working, Phases
  <2> QED
    BY <1>0, <2>1, WorkStep
<1>4. TypeOK'
  BY <1>0, <1>2, <1>3 DEF TypeOK
<1>5. Cur' = Cur /\ Reached' = Reached /\ Reached = Elements(roster)
  BY <1>0, AllReached DEF Cur, Depth, Reached
<1>6. Depth' > 0 /\ pos' \in 1 .. Len(roster') + 1
  BY <1>0, <1>3 DEF TypeOK
<1>7. \A q \in Participants : Cur'.ran[q] # {} => q \in Elements(roster') /\ q \in Reached'
  BY <1>0, <1>5
<1>8. /\ phase = "commit1" => InCommit1'
      /\ phase = "commit2" => InCommit2'
      /\ phase = "rollback" => InRollback'
  <2>1. /\ phase = "commit1" => InCommit1
        /\ phase = "commit2" => InCommit2
        /\ phase = "rollback" => InRollback
    BY <1>0 DEF Inv, Present
  <2>2. phase = "commit1" => InCommit1'
    BY <1>0, <1>5, <2>1 DEF InCommit1
  <2>3. /\ Tracks("commit2") => Tracks("commit2")'
        /\ Tracks("rollback") => Tracks("rollback")'
    BY <1>0, <1>5 DEF Tracks
  <2>4. phase = "commit2" => InCommit2'
    BY <1>0, <1>5, <2>1, <2>3 DEF InCommit2
  <2>5. phase = "rollback" => InRollback'
    BY <1>0, <1>5, <2>1, <2>3 DEF InRollback
  <2> QED
    BY <2>2, <2>4, <2>5
<1>9. Present'
  BY <1>1, <1>2, <1>3, <1>6, <1>7, <1>8 DEF Present, Working, Phases
<1> QED
  BY <1>3, <1>4, <1>9 DEF Inv

\* A promise of the loop settles.
LEMMA HookSettlesStep ==
    ASSUME Inv, NEW phase \in Phases, HookSettles(phase)
    PROVE  Inv'
<1>0. /\ pc = Waiting(phase) /\ TypeOK
      /\ UNCHANGED <<pc, status, locks, roster, pos, mutated, rounds>>
  BY DEF HookSettles, Inv
<1>1. PICK p \in pending, ok \in BOOLEAN :
         pending' = pending \ {p} /\ Ran(p, phase, ok) /\ failed' = (failed \/ ~ok)
  BY DEF HookSettles
<1>2. /\ phase = "commit1" => pc = "commit1Wait"
      /\ phase = "commit2" => pc = "commit2Wait"
      /\ phase = "rollback" => pc = "rollbackWait"
  BY <1>0, WaitingPhases
<1>3. pc \in Working /\ p \in Participants
  BY <1>0, <1>2 DEF Phases, Working, TypeOK
<1>4. /\ Depth > 0 /\ pos \in 1 .. Len(roster) + 1
      /\ \A q \in Participants : Cur.ran[q] # {} => q \in Elements(roster)
  BY <1>3 DEF Inv, Present
<1>5. /\ cycles' \in Seq(CycleType) /\ Depth' = Depth /\ Depth' <= MAX_CHAINED_COMMITS + 1
      /\ Distinct' /\ Past' /\ Told' /\ Bounded' /\ Cur'.outcome = Undefined
  BY <1>0, <1>1, <1>3, WorkStep DEF Hooks, Phases
<1>6. TypeOK'
  <2>1. pending' \subseteq Participants
    BY <1>0, <1>1 DEF TypeOK
  <2>2. failed' \in BOOLEAN
    BY <1>1
  <2> QED
    BY <1>0, <1>5, <2>1, <2>2 DEF TypeOK
<1>7. Reached' = Reached /\ Elements(roster') = Elements(roster)
  BY <1>0 DEF Reached, Elements
<1>8. /\ AllSettled(Cur) => AllSettled(Cur')
      /\ \A h : h # phase /\ Never(Cur, h) => Never(Cur', h)
      /\ \A h : (h # phase \/ ok) /\ NoFailure(Cur, h) => NoFailure(Cur', h)
      /\ \A q \in Participants : Cur'.ran[q] # {} => Cur.ran[q] # {} \/ q = p
      /\ phase = "rollback" /\ InOrder(Cur) /\ Never(Cur, "commit2") => InOrder(Cur')
  BY <1>0, <1>1, <1>3, <1>4, HookResult
<1>9. p \in Reached
  <2>1. CASE phase = "commit1"
    BY <1>2, <2>1, <1>1 DEF Inv, Present, InCommit1
  <2>2. CASE phase = "commit2"
    BY <1>1, <1>2, <1>3, <2>2 DEF Inv, Present, InCommit2, Tracks
  <2>3. CASE phase = "rollback"
    BY <1>1, <1>2, <1>3, <2>3 DEF Inv, Present, InRollback, Tracks
  <2> QED
    BY <2>1, <2>2, <2>3 DEF Phases
<1>10. Reached \subseteq Elements(roster)
  BY <1>0, <1>4 DEF Reached, Elements, TypeOK
<1>11. \A q \in Participants : Cur'.ran[q] # {} => q \in Elements(roster')
  BY <1>4, <1>7, <1>8, <1>9, <1>10
<1>12. Depth' > 0 /\ pos' \in 1 .. Len(roster') + 1
  BY <1>0, <1>4, <1>5
<1>13. CASE phase = "commit1"
  <2>1. InCommit1
    BY <1>2, <1>13 DEF Inv, Present
  <2>2. failed' \/ NoFailure(Cur', "commit1")
    <3>1. CASE failed'
      BY <3>1
    <3>2. CASE ~failed'
      <4>1. ~failed /\ ok
        BY <1>1, <3>2
      <4> QED
        BY <1>8, <2>1, <4>1 DEF InCommit1
    <3> QED
      BY <3>1, <3>2
  <2>3. InCommit1'
    BY <1>0, <1>1, <1>7, <1>8, <1>13, <2>1, <2>2 DEF InCommit1
  <2>4. Present'
    BY <1>0, <1>2, <1>5, <1>11, <1>12, <1>13, <2>3 DEF Present, Working
  <2> QED
    BY <1>5, <1>6, <2>4 DEF Inv
<1>14. CASE phase = "commit2"
  <2>1. InCommit2
    BY <1>2, <1>14 DEF Inv, Present
  <2>2. Tracks("commit2")'
    BY <1>0, <1>1, <1>4, <1>14, <2>1, TracksSettle DEF InCommit2
  <2>3. InCommit2'
    BY <1>0, <1>8, <1>14, <2>1, <2>2 DEF InCommit2
  <2>4. Present'
    BY <1>0, <1>2, <1>5, <1>11, <1>12, <1>14, <2>3 DEF Present, Working
  <2> QED
    BY <1>5, <1>6, <2>4 DEF Inv
<1>15. CASE phase = "rollback"
  <2>1. InRollback
    BY <1>2, <1>15 DEF Inv, Present
  <2>2. Tracks("rollback")'
    BY <1>0, <1>1, <1>4, <1>15, <2>1, TracksSettle DEF InRollback
  <2>3. locks' \/ Only(Cur', {<<"rollback", TRUE>>, <<"rollback", FALSE>>})
    BY <1>0, <1>1, <1>3, <1>4, <1>15, <2>1, OnlyRollback DEF InRollback
  <2>4. InRollback'
    BY <1>8, <1>15, <2>1, <2>2, <2>3 DEF InRollback
  <2>5. \A q \in Participants : Cur'.ran[q] # {} => q \in Reached'
    BY <1>2, <1>7, <1>8, <1>9, <1>15 DEF Inv, Present
  <2>6. Present'
    BY <1>0, <1>2, <1>5, <1>11, <1>12, <1>15, <2>4, <2>5 DEF Present, Working
  <2> QED
    BY <1>5, <1>6, <2>6 DEF Inv
<1> QED
  BY <1>13, <1>14, <1>15 DEF Phases

\* Phase one has failed or phase two begins.
LEMMA Commit1DoneStep ==
    ASSUME Inv, Commit1Done
    PROVE  Inv'
<1>0. /\ pc = "commit1Wait" /\ pc \in Working /\ pending = {} /\ TypeOK /\ InCommit1
      /\ Depth > 0 /\ \A q \in Participants : Cur.ran[q] # {} => q \in Elements(roster)
  <2>1. pc = "commit1Wait" /\ pc \in Working /\ pending = {} /\ TypeOK
    BY DEF Commit1Done, Inv, Working
  <2> QED
    BY <2>1 DEF Inv, Present
<1>1. CASE failed /\ RollbackCycle /\ UNCHANGED cycles
  <2>1. Cur' = Cur
    BY <1>1 DEF Cur, Depth
  <2>2. InOrder(Cur) /\ Never(Cur, "commit2") /\ Never(Cur, "rollback") /\ locks
    BY <1>0 DEF InOrder, InCommit1
  <2> QED
    BY <1>0, <1>1, <2>1, <2>2, RollbackCycleStep
<1>2. CASE /\ ~failed /\ Enter("commit2", "CommittingPhaseTwo")
           /\ UNCHANGED <<locks, roster, mutated, rounds, cycles>>
  <2>1. /\ pc' = "commit2" /\ status' = "CommittingPhaseTwo" /\ pos' = 1 /\ failed' = FALSE
        /\ UNCHANGED <<pending, locks, roster, mutated, rounds, cycles>>
    BY <1>2 DEF Enter
  <2>2. /\ cycles' \in Seq(CycleType) /\ Depth' = Depth /\ Depth' <= MAX_CHAINED_COMMITS + 1
        /\ Distinct' /\ Past' /\ Told' /\ Bounded' /\ Cur'.outcome = Undefined
    BY <1>0, <2>1, WorkStep DEF Working
  <2>3. TypeOK'
    BY <1>0, <2>1, <2>2 DEF TypeOK
  <2>4. Cur' = Cur /\ Reached' = {}
    BY <2>1 DEF Cur, Depth, Reached
  <2>5. Tracks("commit2")'
    BY <1>0, <2>1, <2>4 DEF Tracks, InCommit1, Never, NoFailure, HasRun
  <2>6. InCommit2'
    BY <1>0, <1>2, <2>1, <2>4, <2>5 DEF InCommit1, InCommit2
  <2>7. Depth' > 0 /\ pos' \in 1 .. Len(roster') + 1
    BY <1>0, <2>1, <2>2 DEF TypeOK
  <2>8. Present'
    BY <1>0, <2>1, <2>2, <2>4, <2>6, <2>7 DEF Present, Working
  <2> QED
    BY <2>2, <2>3, <2>8 DEF Inv
<1> QED
  BY <1>1, <1>2 DEF Commit1Done

\* The participants whom the loop has called are those it has reached, each once.
LEMMA CalledReached ==
    ASSUME TypeOK, Distinct, pos \in 1 .. Len(roster) + 1
    PROVE  /\ Called \in Seq(Participants) /\ Elements(Called) = Reached
           /\ \A i, j \in 1 .. Len(Called) : Called[i] = Called[j] => i = j
<1>1. roster \in Seq(Participants) /\ Len(roster) \in Nat /\ pos \in Nat
  BY DEF TypeOK
<1>2. /\ Called \in Seq(Participants) /\ Len(Called) = pos - 1
      /\ \A i \in 1 .. pos - 1 : Called[i] = roster[i]
  <2>1. /\ 1 \in 1 .. Len(roster) + 1 /\ pos - 1 \in 0 .. Len(roster)
    BY <1>1
  <2>2. \A i \in 1 .. pos - 1 : roster[i] \in Participants
    BY <1>1, ElementOfSeq
  <2> QED
    BY <1>1, <2>1, <2>2 DEF Called
<1>3. Elements(Called) = Reached
  BY <1>2 DEF Elements, Reached
<1>4. \A i, j \in 1 .. Len(Called) : Called[i] = Called[j] => i = j
  BY <1>1, <1>2 DEF Distinct
<1> QED
  BY <1>2, <1>3, <1>4

\* The outcome of a commit that reached phase two is what happened.
LEMMA CommitOutcome ==
    ASSUME TypeOK, Distinct, InCommit2, pending = {}, pos \in 1 .. Len(roster) + 1,
           NEW n, n.ran = Cur.ran, n.reportees = Called,
           n.outcome = IF failed THEN "inconsistent" ELSE "committed"
    PROVE  Finished(n)
<1>1. Elements(n.reportees) = Reached
      /\ \A i, j \in 1 .. Len(n.reportees) : n.reportees[i] = n.reportees[j] => i = j
  BY CalledReached
<1>2. /\ AllSettled(n) /\ NoFailure(n, "commit1") /\ Never(n, "rollback")
      /\ \A p \in Participants : p \in Reached <=> HasRun(n, p, "commit2")
      /\ failed <=> ~NoFailure(n, "commit2")
  BY DEF InCommit2, Tracks, AllSettled, NoFailure, Never, HasRun
<1>3. InOrder(n)
  BY <1>2 DEF InOrder
<1>4. \A p \in Participants :
         HasRun(n, p, "commit2") \/ HasRun(n, p, "rollback") => p \in Elements(n.reportees)
  BY <1>1, <1>2 DEF Never
<1>5. n.outcome # Undefined
  BY DEF Undefined
<1>6. Truthful(n)
  <2>1. CASE failed
    <3>1. n.outcome = "inconsistent"
      BY <2>1
    <3>2. PICK p \in Participants : <<"commit2", FALSE>> \in n.ran[p]
      BY <1>2, <2>1 DEF NoFailure
    <3> QED
      BY <3>1, <3>2 DEF Truthful
  <2>2. CASE ~failed
    <3>1. n.outcome = "committed"
      BY <2>2
    <3>2. \A p \in Participants : <<"commit2", FALSE>> \notin n.ran[p] /\ ~HasRun(n, p, "rollback")
      BY <1>2, <2>2 DEF NoFailure, Never
    <3>3. \A p \in Elements(n.reportees) \cap Participants : <<"commit2", TRUE>> \in n.ran[p]
      BY <1>1, <1>2, <3>2 DEF HasRun
    <3> QED
      BY <3>1, <3>2, <3>3 DEF Truthful
  <2> QED
    BY <2>1, <2>2
<1> QED
  BY <1>1, <1>3, <1>4, <1>5, <1>6 DEF Finished

\* And so is the outcome of a rollback.
LEMMA RollbackOutcome ==
    ASSUME TypeOK, Distinct, InRollback, pending = {}, pos \in 1 .. Len(roster) + 1,
           \A p \in Participants : Cur.ran[p] # {} => p \in Reached,
           NEW n, n.ran = Cur.ran, n.reportees = Called,
           n.outcome = IF failed THEN "inconsistent" ELSE "rolled back"
    PROVE  Finished(n)
<1>1. Elements(n.reportees) = Reached
      /\ \A i, j \in 1 .. Len(n.reportees) : n.reportees[i] = n.reportees[j] => i = j
  BY CalledReached
<1>2. /\ InOrder(n) /\ Never(n, "commit2")
      /\ \A p \in Participants : p \in Reached <=> HasRun(n, p, "rollback")
      /\ failed <=> ~NoFailure(n, "rollback")
  BY DEF InRollback, InOrder, AllSettled, Tracks, NoFailure, Never, HasRun
<1>3. \A p \in Participants :
         HasRun(n, p, "commit2") \/ HasRun(n, p, "rollback") => p \in Elements(n.reportees)
  BY <1>1, <1>2 DEF Never
<1>4. n.outcome # Undefined
  BY DEF Undefined
<1>5. Truthful(n)
  <2>1. CASE failed
    <3>1. n.outcome = "inconsistent"
      BY <2>1
    <3>2. PICK p \in Participants : <<"rollback", FALSE>> \in n.ran[p]
      BY <1>2, <2>1 DEF NoFailure
    <3> QED
      BY <3>1, <3>2 DEF Truthful
  <2>2. CASE ~failed
    <3>1. n.outcome = "rolled back"
      BY <2>2
    <3>2. \A p \in Participants : n.ran[p] # {} => <<"rollback", TRUE>> \in n.ran[p]
      BY <1>2, <2>2 DEF NoFailure, HasRun
    <3> QED
      BY <1>2, <3>1, <3>2 DEF Truthful, Never
  <2> QED
    BY <2>1, <2>2
<1> QED
  BY <1>1, <1>2, <1>3, <1>4, <1>5 DEF Finished

\* A cycle ends: its outcome is recorded, locks and participants are released.
LEMMA FinalizeStep ==
    ASSUME Inv, pc \in {"commit2Wait", "rollbackWait"}, pending = {},
           NEW outcome \in Outcomes, NEW phase \in {"postCommit", "conclusion"},
           phase = "postCommit" => pc = "commit2Wait",
           Finalize(outcome, phase),
           \A n : n.ran = Cur.ran /\ n.reportees = Called /\ n.outcome = outcome => Finished(n)
    PROVE  Inv'
<1> DEFINE n == [Cur EXCEPT !.outcome = outcome, !.reportees = Called]
<1>0. /\ TypeOK /\ Distinct /\ pc \in Working /\ Depth \in Nat /\ Depth > 0
      /\ pos \in 1 .. Len(roster) + 1 /\ Cur \in CycleType /\ ~Cur.concluded
  <2>1. pc \in Working
    BY DEF Working
  <2> QED
    BY <2>1, CyclesType DEF Inv, Present, Told, Cur
<1>1. /\ pos' = 1 /\ roster' = <<>> /\ locks' = FALSE /\ pc' = phase
      /\ status' = (IF phase = "conclusion" THEN "Concluding" ELSE "Shared")
      /\ UNCHANGED <<mutated, rounds, pending, failed>>
  BY DEF Finalize
<1>2. /\ n \in CycleType /\ n.outcome = outcome /\ n.reportees = Called /\ n.ran = Cur.ran
      /\ n.concluded = Cur.concluded /\ n.told = Cur.told
  <2>1. Called \in Seq(Participants)
    BY <1>0, CalledReached
  <2> HIDE DEF Cur
  <2> QED
    BY <1>0, <2>1 DEF CycleType
<1>3. cycles' = [cycles EXCEPT ![Depth] = n]
  BY <1>0 DEF Finalize, Cur, CycleType
<1> HIDE DEF n
<1>4. /\ cycles' \in Seq(CycleType) /\ Depth' = Depth
      /\ \A j \in 1 .. Depth : cycles'[j] = IF j = Depth THEN n ELSE cycles[j]
  <2>1. Depth \in 1 .. Depth
    BY <1>0
  <2> QED
    BY <1>0, <1>2, <1>3, <2>1, CycleExcept
<1>5. TypeOK'
  <2>1. roster' \in Seq(Participants) /\ pos' \in Nat /\ locks' \in BOOLEAN
    <3>1. <<>> \in Seq(Participants) /\ 1 \in Nat /\ FALSE \in BOOLEAN
      OBVIOUS
    <3> QED
      BY <1>1, <3>1
  <2>2. Depth' <= MAX_CHAINED_COMMITS + 1
    BY <1>0, <1>4 DEF TypeOK
  <2> QED
    BY <1>0, <1>1, <1>4, <2>1, <2>2 DEF TypeOK
<1>6. Distinct'
  BY <1>1 DEF Distinct
<1>7. Finished(n)
  BY <1>2
<1>8. Past'
  BY <1>0, <1>4, <1>7 DEF Inv, Past
<1>9. OpenReports'
  BY <1>5, ReportingOpen, PTL
<1>10. Told'
  <2>0. pc # "conclusion" /\ pc' # "destroyed" /\ pc' \notin Working
    BY <1>1 DEF Working
  <2>1. ASSUME NEW i \in 1 .. Depth
        PROVE  /\ cycles'[i].concluded = cycles[i].concluded
               /\ cycles'[i].concluded => ToldFirst(cycles'[i], Len(cycles'[i].reportees))
               /\ ~cycles'[i].concluded => ToldFirst(cycles'[i], 0)
    <3>1. /\ cycles[i].concluded => ToldFirst(cycles[i], Len(cycles[i].reportees))
          /\ ~cycles[i].concluded => ToldFirst(cycles[i], 0)
      BY <2>0 DEF Told, Inv
    <3>2. CASE i = Depth
      BY <1>0, <1>2, <1>4, <3>1, <3>2 DEF ToldFirst, Cur
    <3>3. CASE i # Depth
      BY <1>4, <3>1, <3>3
    <3> QED
      BY <3>2, <3>3
  <2>2. ASSUME Reporting' > 0
        PROVE  /\ pos' \in 1 .. Len(cycles'[Reporting'].reportees) + 1
               /\ ToldFirst(cycles'[Reporting'], pos' - 1)
    <3>1. Reporting' \in 1 .. Depth /\ ~cycles'[Reporting'].concluded
      BY <1>0, <1>4, <1>9, <2>2 DEF OpenReports
    <3>2. ToldFirst(cycles'[Reporting'], 0)
      BY <2>1, <3>1
    <3>3. Len(cycles'[Reporting'].reportees) \in Nat
      <4>1. cycles'[Reporting'] \in CycleType
        BY <1>4, <3>1, ElementOfSeq DEF Depth
      <4> QED
        BY <4>1 DEF CycleType
    <3>4. pos' - 1 = 0
      BY <1>1
    <3> QED
      BY <1>1, <3>2, <3>3, <3>4
  <2> QED
    BY <1>4, <2>0, <2>1, <2>2 DEF Told
<1>11. Bounded'
  BY <1>1, <1>4 DEF Inv, Bounded
<1>12. Present'
  <2>1. pc' = "postCommit" => Depth' > 0 /\ pos' \in 1 .. Len(Cur'.reportees) + 1
    <3>1. Cur' = n
      BY <1>0, <1>4 DEF Cur
    <3>2. Len(n.reportees) \in Nat
      BY <1>2 DEF CycleType
    <3> QED
      BY <1>0, <1>1, <1>4, <3>1, <3>2
  <2> QED
    BY <1>1, <2>1 DEF Present, Working
<1> QED
  BY <1>5, <1>6, <1>8, <1>10, <1>11, <1>12 DEF Inv

\* Phase two has ended.
LEMMA Commit2DoneStep ==
    ASSUME Inv, Commit2Done
    PROVE  Inv'
<1>1. /\ pc = "commit2Wait" /\ pending = {} /\ TypeOK /\ Distinct /\ InCommit2
      /\ pos \in 1 .. Len(roster) + 1
  <2>1. pc = "commit2Wait" /\ pc \in Working /\ pending = {}
    BY DEF Commit2Done, Working
  <2> QED
    BY <2>1 DEF Inv, Present
<1>2. \A n : n.ran = Cur.ran /\ n.reportees = Called
             /\ n.outcome = (IF failed THEN "inconsistent" ELSE "committed") => Finished(n)
  BY <1>1, CommitOutcome
<1>3. CASE failed /\ Finalize("inconsistent", "conclusion")
  BY <1>1, <1>2, <1>3, FinalizeStep DEF Outcomes
<1>4. CASE ~failed /\ Finalize("committed", "postCommit")
  BY <1>1, <1>2, <1>4, FinalizeStep DEF Outcomes
<1> QED
  BY <1>3, <1>4 DEF Commit2Done

\* A rollback has ended.
LEMMA RollbackDoneStep ==
    ASSUME Inv, RollbackDone
    PROVE  Inv'
<1>1. /\ pc = "rollbackWait" /\ pending = {} /\ TypeOK /\ Distinct /\ InRollback
      /\ pos \in 1 .. Len(roster) + 1
      /\ \A p \in Participants : Cur.ran[p] # {} => p \in Reached
  <2>1. pc = "rollbackWait" /\ pc \in Working /\ pending = {}
    BY DEF RollbackDone, Working
  <2> QED
    BY <2>1 DEF Inv, Present
<1>2. \A n : n.ran = Cur.ran /\ n.reportees = Called
             /\ n.outcome = (IF failed THEN "inconsistent" ELSE "rolled back") => Finished(n)
  BY <1>1, RollbackOutcome
<1>3. CASE failed
  BY <1>1, <1>2, <1>3, FinalizeStep DEF Outcomes, RollbackDone
<1>4. CASE ~failed
  BY <1>1, <1>2, <1>4, FinalizeStep DEF Outcomes, RollbackDone
<1> QED
  BY <1>3, <1>4

-----------------------------------------------------------------------------
(***************************************************************************)
(* Between the cycles and after the last.                                  *)
(***************************************************************************)

\* A step that leaves the cycles alone.
LEMMA CyclesKept ==
    ASSUME Inv, UNCHANGED cycles
    PROVE  /\ cycles' \in Seq(CycleType) /\ Depth' = Depth /\ Depth' <= MAX_CHAINED_COMMITS + 1
           /\ Depth \in Nat /\ Cur' = Cur /\ Reporting' = Reporting
           /\ (pc' \in Working <=> pc \in Working) => Past'
<1>1. Depth' = Depth /\ Cur' = Cur /\ Reporting' = Reporting
  BY DEF Depth, Cur, Reporting
<1>2. (pc' \in Working <=> pc \in Working) => Past'
  BY <1>1 DEF Inv, Past
<1> QED
  BY <1>1, <1>2, CyclesType DEF Inv, TypeOK

\* A new cycle begins after the ones that have ended.
LEMMA NewCycleStep ==
    ASSUME Inv, pc \in {"user", "postCommit", "conclusion"},
           pc = "conclusion" => Reporting = 0,
           cycles' = Append(cycles, NewCycle), Depth <= MAX_CHAINED_COMMITS,
           pc' \in {"preCommit", "rollback"}
    PROVE  /\ cycles' \in Seq(CycleType) /\ Depth' = Depth + 1 /\ Depth \in Nat
           /\ Depth' <= MAX_CHAINED_COMMITS + 1
           /\ Cur' = NewCycle /\ pending = {} /\ Past' /\ Told'
<1>1. NewCycle \in CycleType
  BY DEF NewCycle, CycleType
<1>2. cycles \in Seq(CycleType) /\ Depth \in Nat
  BY CyclesType DEF Inv
<1>3. /\ cycles' \in Seq(CycleType) /\ Depth' = Depth + 1
      /\ \A i \in 1 .. Depth : cycles'[i] = cycles[i]
      /\ cycles'[Depth + 1] = NewCycle
  BY <1>1, <1>2, AppendProperties DEF Depth
<1>4. Cur' = NewCycle
  BY <1>3 DEF Cur
<1>5. Depth' <= MAX_CHAINED_COMMITS + 1
  BY <1>2, <1>3, MaximaAssumption
<1>6. pc \notin Working /\ pending = {}
  BY DEF Working, Inv, Present
<1>7. Past'
  <2> SUFFICES ASSUME NEW i \in 1 .. Depth
               PROVE  Finished(cycles'[i])
    <3>1. pc' \in Working
      BY DEF Working
    <3>2. \A i \in 1 .. Depth' : i < Depth' => i \in 1 .. Depth
      BY <1>2, <1>3
    <3> QED
      BY <3>1, <3>2 DEF Past
  <2> QED
    BY <1>3, <1>6 DEF Inv, Past
<1>8. Told'
  <2>1. pc' \notin {"conclusion", "destroyed"} /\ ~NewCycle.concluded
    BY DEF NewCycle
  <2>2. ASSUME NEW i \in 1 .. Depth + 1
        PROVE  /\ cycles'[i].concluded => ToldFirst(cycles'[i], Len(cycles'[i].reportees))
               /\ ~cycles'[i].concluded => ToldFirst(cycles'[i], 0)
    <3>1. CASE i \in 1 .. Depth
      <4>1. ~(pc = "conclusion" /\ i = Reporting)
        BY <1>2, <3>1
      <4> QED
        BY <1>3, <3>1, <4>1 DEF Inv, Told
    <3>2. CASE i = Depth + 1
      <4>1. ToldFirst(NewCycle, 0)
        <5>1. \A p \in Participants : NewCycle.told[p] = 0
          BY DEF NewCycle
        <5>2. 1 .. 0 = {}
          OBVIOUS
        <5> QED
          BY <5>1, <5>2 DEF ToldFirst
      <4> QED
        BY <1>3, <2>1, <3>2, <4>1
    <3>3. i \in 1 .. Depth \/ i = Depth + 1
      BY <1>2
    <3> QED
      BY <3>1, <3>2, <3>3
  <2> QED
    BY <1>3, <1>4, <2>1, <2>2 DEF Told
<1> QED
  BY <1>2, <1>3, <1>4, <1>5, <1>6, <1>7, <1>8

\* commit() begins a cycle.
LEMMA StartCycleStep ==
    ASSUME Inv, pc \in {"user", "postCommit"}, locks, Depth < MAX_CHAINED_COMMITS, StartCycle
    PROVE  Inv'
<1>1. /\ pc' = "preCommit" /\ status' = "Exclusive" /\ pos' = 1 /\ failed' = FALSE
      /\ mutated' = FALSE /\ rounds' = 1 /\ UNCHANGED <<pending, locks, roster>>
      /\ cycles' = Append(cycles, NewCycle)
  BY DEF StartCycle, Enter
<1>2. Depth \in Nat /\ TypeOK
  BY CyclesType DEF Inv
<1>3. /\ cycles' \in Seq(CycleType) /\ Depth' = Depth + 1 /\ Depth \in Nat
      /\ Depth' <= MAX_CHAINED_COMMITS + 1
      /\ Cur' = NewCycle /\ pending = {} /\ Past' /\ Told'
  <2>1. Depth <= MAX_CHAINED_COMMITS
    BY <1>2, MaximaAssumption
  <2> QED
    BY <1>1, <2>1, NewCycleStep
<1>4. TypeOK'
  <2>1. rounds' \in 1 .. MAX_PRECOMMIT_CYCLES /\ pos' \in Nat
    BY <1>1, MaximaAssumption
  <2> QED
    BY <1>1, <1>2, <1>3, <2>1 DEF TypeOK
<1>5. Distinct' /\ Bounded'
  BY <1>1, <1>3, MaximaAssumption DEF Inv, Distinct, Bounded
<1>6. Present'
  <2>1. NewCycle.outcome = Undefined /\ \A p \in Participants : NewCycle.ran[p] = {}
    BY DEF NewCycle
  <2>2. InPreCommit'
    BY <1>1, <1>3, <2>1 DEF InPreCommit, Only
  <2>3. Depth' > 0 /\ pos' \in 1 .. Len(roster') + 1
    BY <1>1, <1>2, <1>3 DEF TypeOK
  <2> QED
    BY <1>1, <1>3, <2>1, <2>2, <2>3 DEF Present, Working
<1> QED
  BY <1>3, <1>4, <1>5, <1>6 DEF Inv

\* rollback() begins a cycle of its own.
LEMMA StartRollbackStep ==
    ASSUME Inv, pc \in {"user", "conclusion"}, pc = "conclusion" => Reporting = 0,
           Depth <= MAX_CHAINED_COMMITS, StartRollback
    PROVE  Inv'
<1>1. /\ pc' = "rollback" /\ status' = "RollingBack" /\ pos' = 1 /\ failed' = FALSE
      /\ UNCHANGED <<pending, locks, roster, mutated, rounds>>
      /\ cycles' = Append(cycles, NewCycle)
  BY DEF StartRollback, Enter
<1>2. TypeOK
  BY DEF Inv
<1>3. /\ cycles' \in Seq(CycleType) /\ Depth' = Depth + 1 /\ Depth \in Nat
      /\ Depth' <= MAX_CHAINED_COMMITS + 1
      /\ Cur' = NewCycle /\ pending = {} /\ Past' /\ Told'
  BY <1>1, NewCycleStep
<1>4. TypeOK'
  BY <1>1, <1>2, <1>3 DEF TypeOK
<1>5. Distinct' /\ Bounded'
  BY <1>1 DEF Inv, Distinct, Bounded
<1>6. Present'
  <2>1. NewCycle.outcome = Undefined /\ \A p \in Participants : NewCycle.ran[p] = {}
    BY DEF NewCycle
  <2>2. /\ InOrder(NewCycle) /\ Never(NewCycle, "commit2") /\ Never(NewCycle, "rollback")
        /\ NoFailure(NewCycle, "rollback")
        /\ Only(NewCycle, {<<"rollback", TRUE>>, <<"rollback", FALSE>>})
    BY <2>1 DEF InOrder, Never, NoFailure, Only, HasRun
  <2>3. Reached' = {}
    BY <1>1 DEF Reached
  <2>4. Tracks("rollback")'
    BY <1>1, <1>3, <2>2, <2>3 DEF Tracks, Never
  <2>5. InRollback'
    BY <1>3, <2>2, <2>4 DEF InRollback
  <2>6. Depth' > 0 /\ pos' \in 1 .. Len(roster') + 1
    BY <1>1, <1>2, <1>3 DEF TypeOK
  <2> QED
    BY <1>1, <1>3, <2>1, <2>5, <2>6 DEF Present, Working
<1> QED
  BY <1>3, <1>4, <1>5, <1>6 DEF Inv

\* resolve().
LEMMA CommitStep ==
    ASSUME Inv, Commit
    PROVE  Inv'
<1>1. pc = "user" /\ cycles = <<>> /\ (locks <=> status = "Exclusive")
  BY DEF Commit, Inv, Present
<1>2. Depth = 0
  BY <1>1 DEF Depth
<1>3. CASE status = "Exclusive" /\ StartCycle
  BY <1>1, <1>2, <1>3, StartCycleStep, MaximaAssumption
<1>4. CASE status = "Shared" /\ StartRollback
  BY <1>1, <1>2, <1>4, StartRollbackStep, MaximaAssumption
<1> QED
  BY <1>3, <1>4 DEF Commit

\* A step outside the cycles that leaves them and what was told alone.
LEMMA QuietStep ==
    ASSUME Inv, pc \in {"user", "postCommit"}, UNCHANGED <<cycles, pending>>,
           pc' \in {"user", "postCommit", "conclusion", "destroyed"},
           pc' = "conclusion" => pos' = 1,
           pc' = "destroyed" => cycles = <<>>
    PROVE  /\ cycles' \in Seq(CycleType) /\ Depth' = Depth /\ Depth' <= MAX_CHAINED_COMMITS + 1
           /\ Depth \in Nat /\ Cur' = Cur /\ Past' /\ Told' /\ Bounded' /\ pending' = {}
<1>1. /\ cycles' \in Seq(CycleType) /\ Depth' = Depth /\ Depth' <= MAX_CHAINED_COMMITS + 1
      /\ Depth \in Nat /\ Cur' = Cur /\ Reporting' = Reporting /\ Past' /\ TypeOK
  BY CyclesKept DEF Working, Inv
<1>2. pending' = {} /\ Depth <= MAX_CHAINED_COMMITS
  <2>1. pc \notin Working /\ pc \notin {"rollback", "rollbackWait", "conclusion", "destroyed"}
    BY DEF Working
  <2>2. pending' = {}
    BY <2>1 DEF Inv, Present
  <2>3. ~(Depth > MAX_CHAINED_COMMITS)
    BY <2>1 DEF Inv, Bounded
  <2> QED
    BY <1>1, <2>2, <2>3, MaximaAssumption
<1>3. Bounded'
  BY <1>1, <1>2, MaximaAssumption DEF Bounded
<1>4. OpenReports
  BY <1>1, ReportingOpen
<1>5. Told'
  <2>0. pc' \notin Working
    BY DEF Working
  <2>1. ASSUME NEW i \in 1 .. Depth
        PROVE  /\ cycles[i].concluded => ToldFirst(cycles[i], Len(cycles[i].reportees))
               /\ ~cycles[i].concluded => ToldFirst(cycles[i], 0)
    BY DEF Inv, Told
  <2>2. ASSUME pc' = "conclusion", Reporting > 0
        PROVE  /\ pos' \in 1 .. Len(cycles[Reporting].reportees) + 1
               /\ ToldFirst(cycles[Reporting], pos' - 1)
    <3>1. Reporting \in 1 .. Depth /\ ~cycles[Reporting].concluded
      BY <1>1, <1>4, <2>2 DEF OpenReports
    <3>2. ToldFirst(cycles[Reporting], 0)
      BY <2>1, <3>1
    <3>3. Len(cycles[Reporting].reportees) \in Nat
      BY <1>1, <3>1, CyclesType DEF CycleType
    <3>4. pos' = 1 /\ pos' - 1 = 0
      BY <2>2
    <3> QED
      BY <3>2, <3>3, <3>4
  <2>3. pc' = "destroyed" => Depth = 0
    BY DEF Depth
  <2> QED
    BY <1>1, <2>0, <2>1, <2>2, <2>3 DEF Told
<1> QED
  BY <1>1, <1>2, <1>3, <1>5

\* reject().
LEMMA RejectStep ==
    ASSUME Inv, Reject
    PROVE  Inv'
<1>1. pc = "user" /\ cycles = <<>> /\ TypeOK
  BY DEF Reject, Inv, Present
<1>2. CASE status = "Exclusive" /\ StartRollback
  <2>1. Depth = 0
    BY <1>1 DEF Depth
  <2> QED
    BY <1>1, <1>2, <2>1, StartRollbackStep, MaximaAssumption
<1>3. CASE /\ pc' = "destroyed" /\ status' = "Destroyed" /\ roster' = <<>>
           /\ UNCHANGED <<locks, pos, mutated, rounds, pending, failed, cycles>>
  <2>1. /\ cycles' \in Seq(CycleType) /\ Depth' = Depth /\ Depth' <= MAX_CHAINED_COMMITS + 1
        /\ Depth \in Nat /\ Cur' = Cur /\ Past' /\ Told' /\ Bounded' /\ pending' = {}
    BY <1>1, <1>3, QuietStep
  <2>2. TypeOK'
    <3>1. <<>> \in Seq(Participants)
      OBVIOUS
    <3> QED
      BY <1>1, <1>3, <2>1, <3>1 DEF TypeOK
  <2>3. Distinct' /\ Present'
    BY <1>3, <2>1 DEF Distinct, Present, Working
  <2> QED
    BY <2>1, <2>2, <2>3 DEF Inv
<1> QED
  BY <1>2, <1>3 DEF Reject

\* begin().
LEMMA BeginStep ==
    ASSUME Inv, Begin
    PROVE  Inv'
<1>1. /\ pc \in {"user", "postCommit"} /\ TypeOK /\ status' = "Exclusive" /\ locks' = TRUE
      /\ UNCHANGED <<pc, roster, pos, mutated, rounds, pending, failed, cycles>>
  BY DEF Begin, Inv
<1>2. /\ cycles' \in Seq(CycleType) /\ Depth' = Depth /\ Depth' <= MAX_CHAINED_COMMITS + 1
      /\ Depth \in Nat /\ Cur' = Cur /\ Past' /\ Told' /\ Bounded' /\ pending' = {}
  BY <1>1, QuietStep
<1>3. TypeOK'
  BY <1>1, <1>2 DEF TypeOK
<1>4. Distinct'
  BY <1>1 DEF Inv, Distinct
<1>5. Present'
  BY <1>1, <1>2 DEF Inv, Present, Working
<1> QED
  BY <1>2, <1>3, <1>4, <1>5 DEF Inv

\* One participant's postCommit.
LEMMA PostCommitStep ==
    ASSUME Inv, PostCommit
    PROVE  Inv'
<1>1. /\ pc = "postCommit" /\ TypeOK /\ pos' = pos + 1 /\ pos <= Len(Cur.reportees)
      /\ UNCHANGED <<pc, status, locks, roster, mutated, rounds, pending, failed, cycles>>
  BY DEF PostCommit, Inv, Cur
<1>2. /\ cycles' \in Seq(CycleType) /\ Depth' = Depth /\ Depth' <= MAX_CHAINED_COMMITS + 1
      /\ Depth \in Nat /\ Cur' = Cur /\ Past' /\ Told' /\ Bounded' /\ pending' = {}
  BY <1>1, QuietStep
<1>3. /\ Depth > 0 /\ pos \in 1 .. Len(Cur.reportees) + 1 /\ (locks <=> status = "Exclusive")
  BY <1>1 DEF Inv, Present
<1>4. Len(Cur.reportees) \in Nat
  BY <1>1, <1>3, CyclesType DEF Cur, CycleType
<1>5. TypeOK'
  <2>1. pos' \in Nat
    BY <1>1, <1>3, <1>4
  <2> QED
    BY <1>1, <1>2, <2>1 DEF TypeOK
<1>6. Distinct'
  BY <1>1 DEF Inv, Distinct
<1>7. Present'
  <2>1. pos' \in 1 .. Len(Cur'.reportees) + 1
    BY <1>1, <1>2, <1>3, <1>4
  <2> QED
    BY <1>1, <1>2, <1>3, <2>1 DEF Present, Working
<1> QED
  BY <1>2, <1>5, <1>6, <1>7 DEF Inv

\* The outcome is reported, or the commit that a hook began comes first.
LEMMA PostCommitDoneStep ==
    ASSUME Inv, PostCommitDone
    PROVE  Inv'
<1>1. pc = "postCommit" /\ TypeOK /\ (locks <=> status = "Exclusive")
  BY DEF PostCommitDone, Inv, Present
<1>2. CASE StartConclusion
  <2>1. /\ pc' = "conclusion" /\ status' = "Concluding" /\ pos' = 1
        /\ UNCHANGED <<locks, roster, mutated, rounds, pending, failed, cycles>>
    BY <1>2 DEF StartConclusion
  <2>2. /\ cycles' \in Seq(CycleType) /\ Depth' = Depth /\ Depth' <= MAX_CHAINED_COMMITS + 1
        /\ Depth \in Nat /\ Cur' = Cur /\ Past' /\ Told' /\ Bounded' /\ pending' = {}
    BY <1>1, <2>1, QuietStep
  <2>3. TypeOK'
    BY <1>1, <2>1, <2>2 DEF TypeOK
  <2>4. Distinct'
    BY <2>1 DEF Inv, Distinct
  <2>5. Present'
    BY <2>1, <2>2 DEF Present, Working
  <2> QED
    BY <2>2, <2>3, <2>4, <2>5 DEF Inv
<1>3. CASE status = "Exclusive" /\ Depth < MAX_CHAINED_COMMITS /\ StartCycle
  BY <1>1, <1>3, StartCycleStep
<1> QED
  BY <1>2, <1>3 DEF PostCommitDone

Innermost(open) == IF open = {} THEN 0 ELSE CHOOSE i \in open : \A j \in open : j <= i

\* What a cycle says of its hooks does not depend on who has been told.
LEMMA FinishedSame ==
    ASSUME NEW c, NEW d, Finished(c),
           d.ran = c.ran, d.outcome = c.outcome, d.reportees = c.reportees
    PROVE  Finished(d)
  BY DEF Finished, Truthful, InOrder, Never, NoFailure, AllSettled, HasRun

\* A step of reporting changes nothing but the cycle that reports.
LEMMA ReportStep ==
    ASSUME Inv, pc = "conclusion", Reporting > 0, NEW n \in CycleType,
           cycles' = [cycles EXCEPT ![Reporting] = n], pos' \in Nat,
           n.ran = cycles[Reporting].ran, n.outcome = cycles[Reporting].outcome,
           n.reportees = cycles[Reporting].reportees,
           UNCHANGED <<pc, status, locks, roster, mutated, rounds, pending, failed>>
    PROVE  /\ TypeOK' /\ Distinct' /\ Present' /\ Past' /\ Bounded' /\ Depth' = Depth
           /\ Reporting \in 1 .. Depth
           /\ \A j \in 1 .. Depth : cycles'[j] = IF j = Reporting THEN n ELSE cycles[j]
<1>0. TypeOK /\ OpenReports /\ Depth \in Nat
  BY ReportingOpen, CyclesType DEF Inv
<1>1. Reporting \in 1 .. Depth
  BY <1>0 DEF OpenReports
<1>2. /\ cycles' \in Seq(CycleType) /\ Depth' = Depth
      /\ \A j \in 1 .. Depth : cycles'[j] = IF j = Reporting THEN n ELSE cycles[j]
  BY <1>0, <1>1, CycleExcept
<1>3. TypeOK'
  BY <1>0, <1>2 DEF TypeOK
<1>4. pc \notin Working
  BY DEF Working
<1>5. Past'
  <2>1. ASSUME NEW i \in 1 .. Depth
        PROVE  Finished(cycles'[i])
    <3>1. Finished(cycles[i])
      BY <1>4 DEF Inv, Past
    <3>2. CASE i = Reporting
      <4>1. Finished(n)
        BY <3>1, <3>2, FinishedSame
      <4> QED
        BY <1>2, <3>2, <4>1
    <3>3. CASE i # Reporting
      BY <1>2, <3>1, <3>3
    <3> QED
      BY <3>2, <3>3
  <2> QED
    BY <1>2, <2>1 DEF Past
<1>6. Distinct' /\ Bounded'
  BY <1>2 DEF Inv, Distinct, Bounded
<1>7. Present'
  BY <1>4 DEF Inv, Present, Working
<1> QED
  BY <1>1, <1>2, <1>3, <1>5, <1>6, <1>7

\* One participant is told the outcome.
LEMMA ConclusionStep ==
    ASSUME Inv, Conclusion
    PROVE  Inv'
<1> DEFINE r == Reporting
           c == cycles[r]
           p == c.reportees[pos]
           t == [c.told EXCEPT ![p] = @ + 1]
           n == [c EXCEPT !.told = t]
<1>0. /\ pc = "conclusion" /\ r > 0 /\ pos <= Len(c.reportees) /\ pos' = pos + 1
      /\ UNCHANGED <<pc, status, locks, roster, mutated, rounds, pending, failed>>
      /\ TypeOK /\ Depth \in Nat /\ OpenReports
  BY ReportingOpen, CyclesType DEF Conclusion, Inv
<1>1. r \in 1 .. Depth /\ ~c.concluded
  BY <1>0 DEF OpenReports
<1>2. c \in CycleType /\ Len(c.reportees) \in Nat
  BY <1>0, <1>1, CyclesType DEF CycleType
<1>3. pos \in 1 .. Len(c.reportees) /\ ToldFirst(c, pos - 1)
  <2>1. pos \in 1 .. Len(c.reportees) + 1 /\ ToldFirst(c, pos - 1)
    BY <1>0 DEF Inv, Told
  <2> QED
    BY <1>0, <1>2, <2>1
<1>4. p \in Participants
  <2>1. c.reportees \in Seq(Participants)
    BY <1>2 DEF CycleType
  <2> HIDE DEF c
  <2> QED
    BY <1>3, <2>1, ElementOfSeq
<1>5. /\ \A i, j \in 1 .. Len(c.reportees) : c.reportees[i] = c.reportees[j] => i = j
  <2>1. Finished(c)
    BY <1>0, <1>1 DEF Inv, Past, Working
  <2> HIDE DEF c
  <2> QED
    BY <2>1 DEF Finished
<1>6. cycles' = [cycles EXCEPT ![r] = n]
  BY <1>0, <1>1, <1>2 DEF Conclusion, CycleType
<1> HIDE DEF c, r
<1>7. /\ t \in [Participants -> Nat] /\ t[p] = c.told[p] + 1
      /\ \A q \in Participants \ {p} : t[q] = c.told[q]
  BY <1>2, <1>4 DEF CycleType
<1>8. /\ n \in CycleType /\ n.ran = c.ran /\ n.outcome = c.outcome
      /\ n.reportees = c.reportees /\ n.concluded = c.concluded /\ n.told = t
  <2> HIDE DEF t
  <2> QED
    BY <1>2, <1>7 DEF CycleType
<1> HIDE DEF n, t
<1>9. pos \in Nat /\ pos' \in Nat
  BY <1>0 DEF TypeOK
<1>10. /\ TypeOK' /\ Distinct' /\ Present' /\ Past' /\ Bounded' /\ Depth' = Depth
       /\ \A j \in 1 .. Depth : cycles'[j] = IF j = r THEN n ELSE cycles[j]
  BY <1>0, <1>6, <1>8, <1>9, ReportStep DEF c, r
<1>11. Reporting' = r
  <2>1. \A j \in 1 .. Depth : cycles'[j].concluded = cycles[j].concluded
    <3> TAKE j \in 1 .. Depth
    <3>1. CASE j = r
      BY <1>8, <1>10, <3>1 DEF c
    <3>2. CASE j # r
      BY <1>10, <3>2
    <3> QED
      BY <3>1, <3>2
  <2>2. {i \in 1 .. Depth' : ~cycles'[i].concluded} = {i \in 1 .. Depth : ~cycles[i].concluded}
    BY <1>10, <2>1
  <2> QED
    <3>1. Reporting = Innermost({i \in 1 .. Depth : ~cycles[i].concluded})
      BY DEF Reporting, Innermost
    <3>2. Reporting' = Innermost({i \in 1 .. Depth' : ~cycles'[i].concluded})
      BY DEF Reporting, Innermost
    <3> QED
      BY <2>2, <3>1, <3>2 DEF r
<1>12. ToldFirst(n, pos)
  <2>1. ASSUME NEW q \in Participants
        PROVE  n.told[q] = IF \E j \in 1 .. pos : n.reportees[j] = q THEN 1 ELSE 0
    <3>1. c.told[q] = IF \E j \in 1 .. pos - 1 : c.reportees[j] = q THEN 1 ELSE 0
      BY <1>3 DEF ToldFirst
    <3>2. CASE q = p
      <4>1. ~\E j \in 1 .. pos - 1 : c.reportees[j] = q
        BY <1>2, <1>3, <1>5, <3>2
      <4>2. \E j \in 1 .. pos : c.reportees[j] = q
        BY <1>2, <1>3, <3>2
      <4> QED
        BY <1>7, <1>8, <3>1, <3>2, <4>1, <4>2
    <3>3. CASE q # p
      <4>1. (\E j \in 1 .. pos : c.reportees[j] = q) <=> \E j \in 1 .. pos - 1 : c.reportees[j] = q
        BY <1>9, <3>3
      <4>2. n.told[q] = c.told[q]
        BY <1>7, <1>8, <3>3
      <4> QED
        BY <1>8, <3>1, <4>1, <4>2
    <3> QED
      BY <3>2, <3>3
  <2> QED
    BY <2>1 DEF ToldFirst
<1>13. Told'
  <2>1. ASSUME NEW i \in 1 .. Depth
        PROVE  /\ cycles'[i].concluded => ToldFirst(cycles'[i], Len(cycles'[i].reportees))
               /\ ~cycles'[i].concluded /\ i # r => ToldFirst(cycles'[i], 0)
    <3>1. CASE i = r
      BY <1>1, <1>8, <1>10, <3>1 DEF c
    <3>2. CASE i # r
      BY <1>10, <3>2 DEF Inv, Told, r
    <3> QED
      BY <3>1, <3>2
  <2>2. /\ pos' \in 1 .. Len(cycles'[r].reportees) + 1
        /\ ToldFirst(cycles'[r], pos' - 1)
    <3>1. cycles'[r] = n /\ pos' - 1 = pos
      BY <1>0, <1>1, <1>9, <1>10 DEF r
    <3> QED
      BY <1>0, <1>2, <1>3, <1>8, <1>12, <3>1
  <2> QED
    BY <1>0, <1>10, <1>11, <2>1, <2>2 DEF Told, Working
<1> QED
  BY <1>10, <1>13 DEF Inv

\* All of a cycle's reportees have been told.
LEMMA ConcludedStep ==
    ASSUME Inv, Concluded
    PROVE  Inv'
<1> DEFINE r == Reporting
           c == cycles[r]
           n == [c EXCEPT !.concluded = TRUE]
<1>0. /\ pc = "conclusion" /\ r > 0 /\ pos > Len(c.reportees) /\ pos' = 1
      /\ UNCHANGED <<pc, status, locks, roster, mutated, rounds, pending, failed>>
      /\ cycles' = [cycles EXCEPT ![r] = n]
      /\ TypeOK /\ Depth \in Nat /\ OpenReports
  BY ReportingOpen, CyclesType DEF Concluded, Inv
<1>1. r \in 1 .. Depth /\ ~c.concluded
  BY <1>0 DEF OpenReports
<1>2. c \in CycleType /\ Len(c.reportees) \in Nat
  BY <1>0, <1>1, CyclesType DEF CycleType
<1>3. ToldFirst(c, Len(c.reportees))
  <2>1. pos \in 1 .. Len(c.reportees) + 1 /\ ToldFirst(c, pos - 1)
    BY <1>0 DEF Inv, Told
  <2>2. pos - 1 = Len(c.reportees)
    BY <1>0, <1>2, <2>1
  <2> QED
    BY <2>1, <2>2
<1> HIDE DEF c, r
<1>4. /\ n \in CycleType /\ n.ran = c.ran /\ n.outcome = c.outcome
      /\ n.reportees = c.reportees /\ n.concluded = TRUE /\ n.told = c.told
  BY <1>2 DEF CycleType
<1> HIDE DEF n
<1>5. /\ TypeOK' /\ Distinct' /\ Present' /\ Past' /\ Bounded' /\ Depth' = Depth
      /\ \A j \in 1 .. Depth : cycles'[j] = IF j = r THEN n ELSE cycles[j]
  BY <1>0, <1>4, ReportStep DEF c, r
<1>6. OpenReports'
  BY <1>5, ReportingOpen, PTL
<1>7. Told'
  <2>1. ASSUME NEW i \in 1 .. Depth
        PROVE  /\ cycles'[i].concluded => ToldFirst(cycles'[i], Len(cycles'[i].reportees))
               /\ ~cycles'[i].concluded => ToldFirst(cycles'[i], 0)
    <3>1. CASE i = r
      BY <1>3, <1>4, <1>5, <3>1 DEF ToldFirst
    <3>2. CASE i # r
      BY <1>5, <3>2 DEF Inv, Told, r
    <3> QED
      BY <3>1, <3>2
  <2>2. ASSUME Reporting' > 0
        PROVE  /\ pos' \in 1 .. Len(cycles'[Reporting'].reportees) + 1
               /\ ToldFirst(cycles'[Reporting'], pos' - 1)
    <3>1. Reporting' \in 1 .. Depth /\ ~cycles'[Reporting'].concluded
      BY <1>0, <1>5, <1>6, <2>2 DEF OpenReports
    <3>2. ToldFirst(cycles'[Reporting'], 0)
      BY <2>1, <3>1
    <3>3. Len(cycles'[Reporting'].reportees) \in Nat
      <4>1. cycles'[Reporting'] \in CycleType
        BY <1>5, <3>1, ElementOfSeq DEF TypeOK, Depth
      <4> QED
        BY <4>1 DEF CycleType
    <3>4. pos' - 1 = 0
      BY <1>0
    <3> QED
      BY <1>0, <3>2, <3>3, <3>4
  <2> QED
    BY <1>0, <1>5, <2>1, <2>2 DEF Told, Working
<1> QED
  BY <1>5, <1>7 DEF Inv

\* The transaction is destroyed, or what is left of it is rolled back.
LEMMA EndStep ==
    ASSUME Inv, End
    PROVE  Inv'
<1>1. pc = "conclusion" /\ Reporting = 0 /\ TypeOK /\ Depth \in Nat
  BY CyclesType DEF End, Inv
<1>2. CASE locks /\ StartRollback
  <2>1. Depth <= MAX_CHAINED_COMMITS
    <3>1. ~(Depth > MAX_CHAINED_COMMITS)
      BY <1>1, <1>2 DEF Inv, Bounded
    <3> QED
      BY <1>1, <3>1, MaximaAssumption
  <2> QED
    BY <1>1, <1>2, <2>1, StartRollbackStep
<1>3. CASE /\ ~locks /\ pc' = "destroyed" /\ status' = "Destroyed"
           /\ UNCHANGED <<locks, roster, pos, mutated, rounds, pending, failed, cycles>>
  <2>1. /\ cycles' \in Seq(CycleType) /\ Depth' = Depth /\ Depth' <= MAX_CHAINED_COMMITS + 1
        /\ Past'
    BY <1>1, <1>3, CyclesKept DEF Working
  <2>2. TypeOK'
    BY <1>1, <1>3, <2>1 DEF TypeOK
  <2>3. Distinct' /\ Bounded'
    BY <1>3 DEF Inv, Distinct, Bounded
  <2>4. Present'
    BY <1>1, <1>3 DEF Inv, Present, Working
  <2>5. \A i \in 1 .. Depth : cycles[i].concluded
    BY <1>1, ReportingOpen DEF OpenReports
  <2>6. \A i \in 1 .. Depth : ToldFirst(cycles[i], Len(cycles[i].reportees))
    BY <2>5 DEF Inv, Told
  <2>7. Told'
    BY <1>3, <2>1, <2>5, <2>6 DEF Told, Working
  <2> QED
    BY <2>1, <2>2, <2>3, <2>4, <2>7 DEF Inv
<1> QED
  BY <1>2, <1>3 DEF End

\* A participant joins: whoever the loop has reached is who it had.
LEMMA AddParticipantsStep ==
    ASSUME Inv, NEW p \in Participants, AddParticipants(p)
    PROVE  Inv'
<1>0. /\ p \notin Elements(roster) /\ roster' = Append(roster, p) /\ TypeOK
      /\ UNCHANGED <<pc, status, locks, pos, mutated, rounds, pending, failed, cycles>>
  BY DEF AddParticipants, Inv
<1>1. /\ roster \in Seq(Participants) /\ Len(roster) \in Nat /\ pos \in Nat
      /\ roster' \in Seq(Participants) /\ Len(roster') = Len(roster) + 1
      /\ \A i \in 1 .. Len(roster) : roster'[i] = roster[i]
      /\ roster'[Len(roster) + 1] = p
  BY <1>0, AppendProperties DEF TypeOK
<1>2. /\ cycles' \in Seq(CycleType) /\ Depth' = Depth /\ Depth' <= MAX_CHAINED_COMMITS + 1
      /\ Cur' = Cur /\ Reporting' = Reporting /\ Past'
  BY <1>0, CyclesKept
<1>3. TypeOK'
  BY <1>0, <1>1, <1>2 DEF TypeOK
<1>4. Distinct'
  BY <1>0, <1>1 DEF Inv, Distinct, Elements
<1>5. Told' /\ Bounded'
  <2>1. Bounded'
    BY <1>0, <1>2 DEF Inv, Bounded
  <2>2. Told'
    BY <1>0, <1>2 DEF Inv, Told
  <2> QED
    BY <2>1, <2>2
<1>6. Elements(roster) \subseteq Elements(roster')
  BY <1>1 DEF Elements
<1>7. CASE pc \notin Working
  <2>1. /\ pc = "user" => cycles = <<>>
        /\ pc \in {"user", "postCommit"} => (locks <=> status = "Exclusive")
        /\ pending = {}
        /\ pc = "postCommit" => Depth > 0 /\ pos \in 1 .. Len(Cur.reportees) + 1
    BY <1>7 DEF Inv, Present
  <2>2. Present'
    BY <1>0, <1>2, <1>7, <2>1 DEF Present, Working
  <2> QED
    BY <1>2, <1>3, <1>4, <1>5, <2>2 DEF Inv
<1>8. CASE pc \in Working
  <2>1. pos \in 1 .. Len(roster) + 1 /\ pos' \in 1 .. Len(roster') + 1
    BY <1>0, <1>1, <1>8 DEF Inv, Present
  <2>2. Reached' = Reached
    <3>1. \A i \in 1 .. pos - 1 : roster'[i] = roster[i]
      BY <1>1, <2>1
    <3> QED
      BY <1>0, <3>1 DEF Reached
  <2>3. /\ pc = "preCommit" => InPreCommit'
        /\ pc = "settled" => InSettled'
        /\ pc \in {"commit1", "commit1Wait"} => InCommit1'
    BY <1>0, <1>2, <2>2 DEF Inv, Present, InPreCommit, InSettled, InCommit1
  <2>4. /\ pc \in {"commit2", "commit2Wait"} => InCommit2'
        /\ pc \in {"rollback", "rollbackWait"} => InRollback'
    BY <1>0, <1>2, <2>2 DEF Inv, Present, InCommit2, InRollback, Tracks
  <2>5. Present'
    BY <1>0, <1>2, <1>6, <1>8, <2>1, <2>2, <2>3, <2>4 DEF Inv, Present, Working
  <2> QED
    BY <1>2, <1>3, <1>4, <1>5, <2>5 DEF Inv
<1> QED
  BY <1>7, <1>8

\* A step that changes nothing.
LEMMA StutterStep ==
    ASSUME Inv, UNCHANGED vars
    PROVE  Inv'
<1>1. UNCHANGED <<pc, status, locks, roster, pos, mutated, rounds, pending, failed, cycles>>
  BY DEF vars
<1>2. /\ Depth' = Depth /\ Cur' = Cur /\ Reporting' = Reporting /\ Reached' = Reached /\ Past'
  BY <1>1, CyclesKept DEF Reached
<1>3. TypeOK' /\ Distinct'
  BY <1>1, <1>2 DEF Inv, TypeOK, Distinct
<1>4. Told' /\ Bounded'
  BY <1>1, <1>2 DEF Inv, Told, Bounded
<1>5. /\ InPreCommit' = InPreCommit /\ InSettled' = InSettled /\ InCommit1' = InCommit1
      /\ InCommit2' = InCommit2 /\ InRollback' = InRollback
  BY <1>1, <1>2 DEF InPreCommit, InSettled, InCommit1, InCommit2, InRollback, Tracks
<1>6. Present'
  BY <1>1, <1>2, <1>5 DEF Inv, Present
<1> QED
  BY <1>2, <1>3, <1>4, <1>6 DEF Inv

\* A transaction begins with the invariant.
LEMMA InitInv == Init => Inv
<1> SUFFICES ASSUME Init PROVE Inv
  OBVIOUS
<1>1. Depth = 0 /\ Len(roster) = 0
  BY DEF Init, Depth
<1>2. TypeOK
  <2>1. <<>> \in Seq(Participants) /\ <<>> \in Seq(CycleType)
    OBVIOUS
  <2>2. rounds \in 1 .. MAX_PRECOMMIT_CYCLES /\ Depth <= MAX_CHAINED_COMMITS + 1 /\ pos \in Nat
    BY <1>1, MaximaAssumption DEF Init
  <2>3. locks \in BOOLEAN /\ mutated \in BOOLEAN /\ failed \in BOOLEAN
    BY DEF Init
  <2> QED
    BY <2>1, <2>2, <2>3 DEF Init, TypeOK
<1>3. Distinct /\ Present /\ Past
  BY <1>1 DEF Init, Distinct, Present, Past, Working
<1>4. Told /\ Bounded
  <2>1. Reporting = 0
    BY <1>1, <1>2, ReportingOpen DEF OpenReports
  <2> QED
    BY <1>1, <2>1, MaximaAssumption DEF Init, Told, Bounded, Working
<1> QED
  BY <1>2, <1>3, <1>4 DEF Inv

\* And every step keeps it.
LEMMA NextInv == Inv /\ [Next]_vars => Inv'
<1> SUFFICES ASSUME Inv, [Next]_vars PROVE Inv'
  OBVIOUS
<1>1. CASE Step
  <2>1. ASSUME NEW phase \in {"commit1", "commit2", "rollback"},
               CallHook(phase) \/ EndLoop(phase) \/ HookSettles(phase)
        PROVE  Inv'
    BY <2>1, CallHookStep, EndLoopStep, HookSettlesStep DEF Phases
  <2>2. CASE PreCommit \/ NextPreCommitCycle \/ PreCommitSettled \/ Settled \/ StartCommit1
    BY <2>2, PreCommitStep, NextPreCommitCycleStep, PreCommitSettledStep, SettledStep,
       StartCommit1Step
  <2>3. CASE Commit1Done \/ Commit2Done \/ RollbackDone
    BY <2>3, Commit1DoneStep, Commit2DoneStep, RollbackDoneStep
  <2>4. CASE PostCommit \/ PostCommitDone \/ Conclusion \/ Concluded \/ End
    BY <2>4, PostCommitStep, PostCommitDoneStep, ConclusionStep, ConcludedStep, EndStep
  <2> QED
    BY <1>1, <2>1, <2>2, <2>3, <2>4 DEF Step
<1>2. CASE Commit \/ Reject \/ Begin
  BY <1>2, CommitStep, RejectStep, BeginStep
<1>3. CASE Destroyed \/ UNCHANGED vars
  BY <1>3, StutterStep DEF Destroyed
<1>4. ASSUME NEW p \in Participants, AddParticipants(p)
      PROVE  Inv'
  BY <1>4, AddParticipantsStep
<1> QED
  BY <1>1, <1>2, <1>3, <1>4 DEF Next

-----------------------------------------------------------------------------
(***************************************************************************)
(* The theorems.                                                           *)
(***************************************************************************)

\* The invariant holds throughout, whatever hooks fail and whoever joins meanwhile.
THEOREM Invariance == Spec => []Inv
  BY InitInv, NextInv, PTL DEF Spec

\* Types, and the maxima: never more than MAX_PRECOMMIT_CYCLES rounds of pre-commit in a
\* cycle, nor more than MAX_CHAINED_COMMITS cycles and the rollback of reject.
THEOREM TypeCorrect == Spec => []TypeOK
<1>1. Inv => TypeOK
  BY DEF Inv
<1> QED
  BY <1>1, Invariance, PTL

\* The reported outcome is what happened to every participant.
THEOREM Truth == Spec => []TruthfulOutcome
<1>1. Inv => TruthfulOutcome
  <2> SUFFICES ASSUME Inv, NEW i \in 1 .. Depth
               PROVE  Truthful(cycles[i])
    BY DEF TruthfulOutcome, Truthful
  <2>1. CASE i < Depth \/ pc \notin Working
    BY <2>1 DEF Inv, Past, Finished
  <2>2. CASE i = Depth /\ pc \in Working
    <3>1. cycles[i].outcome = "undefined"
      BY <2>2 DEF Inv, Present, Cur, Undefined
    <3> QED
      BY <3>1 DEF Truthful
  <2>3. Depth \in Nat
    BY CyclesType DEF Inv
  <2> QED
    BY <2>1, <2>2, <2>3
<1> QED
  BY <1>1, Invariance, PTL

\* The phases of a commit come in order, and no hook that writes outlives the locks.
THEOREM Order == Spec => []PhasesInOrder
<1>1. ASSUME Inv PROVE PhasesInOrder
  <2>1. ASSUME NEW i \in 1 .. Depth PROVE InOrder(cycles[i])
    <3>1. Depth \in Nat
      BY <1>1, CyclesType DEF Inv
    <3>2. CASE i < Depth \/ pc \notin Working
      BY <1>1, <3>2 DEF Inv, Past, Finished
    <3>3. CASE i = Depth /\ pc \in Working
      <4>1. pc \in {"preCommit", "settled"} => InOrder(Cur)
        BY <1>1 DEF Inv, Present, InPreCommit, InSettled, Only, InOrder, Never, HasRun
      <4>2. pc \in {"commit1", "commit1Wait"} => InOrder(Cur)
        BY <1>1 DEF Inv, Present, InCommit1, InOrder
      <4>3. pc \in {"commit2", "commit2Wait"} => InOrder(Cur)
        BY <1>1 DEF Inv, Present, InCommit2, InOrder
      <4>4. pc \in {"rollback", "rollbackWait"} => InOrder(Cur)
        BY <1>1 DEF Inv, Present, InRollback
      <4> QED
        BY <3>3, <4>1, <4>2, <4>3, <4>4 DEF Working, Cur
    <3> QED
      BY <3>1, <3>2, <3>3
  <2>2. SettledBeforeWrites
    BY <2>1 DEF SettledBeforeWrites, InOrder, Never, AllSettled
  <2>3. PointOfNoReturn
    BY <2>1 DEF PointOfNoReturn, InOrder, Never, NoFailure
  <2>4. NoHookOutlivesLocks
    <3> SUFFICES ASSUME pending # {}, ~locks, NEW p \in Participants
                 PROVE  cycles[Depth].ran[p] \subseteq {"rollback"} \X BOOLEAN
      BY DEF NoHookOutlivesLocks
    <3>1. pc \in Working
      BY <1>1 DEF Inv, Present
    <3>2. pc \in {"rollback", "rollbackWait"}
      BY <1>1, <3>1 DEF Inv, Present, InPreCommit, InSettled, InCommit1, InCommit2, Working
    <3>3. Cur.ran[p] \subseteq {<<"rollback", TRUE>>, <<"rollback", FALSE>>}
      BY <1>1, <3>2 DEF Inv, Present, InRollback, Only
    <3>4. {<<"rollback", TRUE>>, <<"rollback", FALSE>>} \subseteq {"rollback"} \X BOOLEAN
      <4>1. \A b \in BOOLEAN : <<"rollback", b>> \in {"rollback"} \X BOOLEAN
        OBVIOUS
      <4>2. <<"rollback", TRUE>> \in {"rollback"} \X BOOLEAN
        BY <4>1, Zenon
      <4>3. <<"rollback", FALSE>> \in {"rollback"} \X BOOLEAN
        BY <4>1, Zenon
      <4> QED
        BY <4>2, <4>3
    <3> QED
      BY <3>3, <3>4 DEF Cur
  <2> QED
    BY <2>2, <2>3, <2>4 DEF PhasesInOrder
<1> QED
  BY <1>1, Invariance, PTL

\* Nobody is told an outcome twice, and nobody whom phase two or a rollback has reached is
\* left untold when the transaction is destroyed.
THEOREM Reports == Spec => []EveryoneIsTold
<1>1. ASSUME Inv PROVE EveryoneIsTold
  <2> SUFFICES ASSUME NEW i \in 1 .. Depth, NEW p \in Participants
               PROVE  /\ cycles[i].told[p] <= 1
                      /\ /\ pc = "destroyed"
                         /\ HasRun(cycles[i], p, "commit2") \/ HasRun(cycles[i], p, "rollback")
                         => cycles[i].told[p] = 1
    BY DEF EveryoneIsTold
  <2>1. \E k : ToldFirst(cycles[i], k)
    <3>1. CASE cycles[i].concluded
      BY <1>1, <3>1 DEF Inv, Told
    <3>2. CASE ~cycles[i].concluded /\ ~(pc = "conclusion" /\ i = Reporting)
      BY <1>1, <3>2 DEF Inv, Told
    <3>3. CASE pc = "conclusion" /\ i = Reporting
      <4>1. Reporting > 0
        BY <3>3, <1>1, CyclesType DEF Inv
      <4> QED
        BY <1>1, <3>3, <4>1 DEF Inv, Told
    <3> QED
      BY <3>1, <3>2, <3>3
  <2>2. cycles[i].told[p] <= 1
    BY <2>1 DEF ToldFirst
  <2>3. ASSUME pc = "destroyed",
               HasRun(cycles[i], p, "commit2") \/ HasRun(cycles[i], p, "rollback")
        PROVE  cycles[i].told[p] = 1
    <3>1. Finished(cycles[i])
      BY <1>1, <2>3 DEF Inv, Past, Working
    <3>2. p \in Elements(cycles[i].reportees)
      BY <2>3, <3>1 DEF Finished
    <3>3. ToldFirst(cycles[i], Len(cycles[i].reportees))
      BY <1>1, <2>3 DEF Inv, Told
    <3> QED
      BY <3>2, <3>3 DEF ToldFirst, Elements
  <2> QED
    BY <2>2, <2>3
<1> QED
  BY <1>1, Invariance, PTL
=============================================================================
