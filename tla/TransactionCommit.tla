--------------------------- MODULE TransactionCommit ---------------------------
(***************************************************************************)
(* How one transaction ends: packages/general/src/transaction/Tx.ts from   *)
(* resolve() or reject() to its destruction, with the hooks of             *)
(* Participant.ts.  TransactionLocks models how it became exclusive.       *)
(*                                                                         *)
(* A hook is a step, with an outcome of the participant's choice.  The     *)
(* hooks of commit1, commit2 and rollback may be asynchronous: their       *)
(* promises are collected by a loop over the participants and settle in    *)
(* any order once the loop is done.  The other hooks are awaited one by    *)
(* one, so that being asynchronous makes no difference.  A missing hook is *)
(* one that does nothing.                                                  *)
(***************************************************************************)
EXTENDS Naturals, Sequences

CONSTANTS Participants,
          MAX_PRECOMMIT_CYCLES, MAX_CHAINED_COMMITS    \* 5 and 5 in the code

ASSUME MaximaAssumption ==
    MAX_PRECOMMIT_CYCLES \in Nat \ {0} /\ MAX_CHAINED_COMMITS \in Nat \ {0}

VARIABLES pc,         \* the phase under way
          status,     \* #status
          locks,      \* whether the transaction holds locks
          roster,     \* #participants, in the order they joined
          pos,        \* the participant a loop has reached
          mutated,    \* mayHaveMutated
          rounds,     \* pre-commit cycles
          pending,    \* participants whose hook's promise is not settled
          failed,     \* needRollback, or errored is not empty
          cycles      \* the CommitCycles, nested ones after the one that began them

vars == <<pc, status, locks, roster, pos, mutated, rounds, pending, failed, cycles>>

Hooks == {"preCommit", "settled", "commit1", "commit2", "rollback"}
Outcomes == {"committed", "rolled back", "inconsistent"}
Undefined == "undefined"

\* A CommitCycle.  "ran" records which hooks it has run and whether they succeeded,
\* "told" how often a participant's conclusion was called.
NewCycle == [reportees |-> <<>>, outcome |-> Undefined,
             concluded |-> FALSE,
             ran |-> [p \in Participants |-> {}], told |-> [p \in Participants |-> 0]]

\* The current cycle, and the innermost one whose outcome is not reported (or 0).
Depth == Len(cycles)
Reporting == LET open == {i \in 1 .. Depth : ~cycles[i].concluded} IN
             IF open = {} THEN 0 ELSE CHOOSE i \in open : \A j \in open : j <= i

Elements(seq) == {seq[i] : i \in 1 .. Len(seq)}

Ran(p, hook, ok) == cycles' = [cycles EXCEPT ![Depth].ran[p] = @ \cup {<<hook, ok>>}]

-----------------------------------------------------------------------------
(* Participants join and the user ends the transaction *)

\* addParticipants, by the user or by a hook.
AddParticipants(p) ==
    /\ pc # "destroyed"
    /\ status \notin {"Settled", "Concluding"}
    /\ p \notin Elements(roster)
    /\ roster' = Append(roster, p)
    /\ UNCHANGED <<pc, status, locks, pos, mutated, rounds, pending, failed, cycles>>

\* begin, by the user or by a postCommit hook.
Begin ==
    /\ pc \in {"user", "postCommit"}
    /\ status = "Shared"
    /\ status' = "Exclusive"
    /\ locks' = TRUE
    /\ UNCHANGED <<pc, roster, pos, mutated, rounds, pending, failed, cycles>>

\* Starts the loop of a phase at the first participant.
Enter(phase, newStatus) ==
    /\ pc' = phase
    /\ status' = newStatus
    /\ pos' = 1
    /\ failed' = FALSE
    /\ UNCHANGED pending

StartCycle ==
    /\ Enter("preCommit", "Exclusive")
    /\ cycles' = Append(cycles, NewCycle)
    /\ mutated' = FALSE
    /\ rounds' = 1
    /\ UNCHANGED <<locks, roster>>

StartRollback ==
    /\ Enter("rollback", "RollingBack")
    /\ cycles' = Append(cycles, NewCycle)
    /\ UNCHANGED <<locks, roster, mutated, rounds>>

\* resolve(): commit().
Commit ==
    /\ pc = "user"
    /\ \/ status = "Exclusive" /\ StartCycle
       \/ status = "Shared" /\ StartRollback

\* reject(): a transaction that is shared is only reset.
Reject ==
    /\ pc = "user"
    /\ \/ status = "Exclusive" /\ StartRollback
       \/ /\ status = "Shared"
          /\ pc' = "destroyed"
          /\ status' = "Destroyed"
          /\ roster' = <<>>
          /\ UNCHANGED <<locks, pos, mutated, rounds, pending, failed, cycles>>

-----------------------------------------------------------------------------
(* Before the first write *)

\* A rollback within the cycle that failed.
RollbackCycle ==
    /\ Enter("rollback", "RollingBack")
    /\ UNCHANGED <<locks, roster, mutated, rounds>>

\* executePreCommit: one participant.
PreCommit ==
    /\ pc = "preCommit"
    /\ pos <= Len(roster)
    /\ \/ /\ \E m \in BOOLEAN : mutated' = (mutated \/ m)
          /\ pos' = pos + 1
          /\ Ran(roster[pos], "preCommit", TRUE)
          /\ UNCHANGED <<pc, status, locks, roster, rounds, pending, failed>>
       \/ RollbackCycle /\ Ran(roster[pos], "preCommit", FALSE)

\* Slip: the maximum allows one round more.
NextPreCommitCycleTooMany ==
    /\ pc = "preCommit"
    /\ pos > Len(roster)
    /\ mutated
    /\ rounds <= MAX_PRECOMMIT_CYCLES
    /\ rounds' = rounds + 1
    /\ mutated' = FALSE
    /\ pos' = 1
    /\ UNCHANGED <<pc, status, locks, roster, pending, failed, cycles>>

\* Slip: rounds are not counted.
NextPreCommitCycleUncounted ==
    /\ pc = "preCommit"
    /\ pos > Len(roster)
    /\ mutated
    /\ mutated' = FALSE
    /\ pos' = 1
    /\ UNCHANGED <<pc, status, locks, roster, rounds, pending, failed, cycles>>

\* nextCycle: another round, since state may have changed, or UnsettledStateError.
NextPreCommitCycle ==
    /\ pc = "preCommit"
    /\ pos > Len(roster)
    /\ mutated
    /\ \/ /\ rounds < MAX_PRECOMMIT_CYCLES
          /\ rounds' = rounds + 1
          /\ mutated' = FALSE
          /\ pos' = 1
          /\ UNCHANGED <<pc, status, locks, roster, pending, failed, cycles>>
       \/ /\ rounds >= MAX_PRECOMMIT_CYCLES
          /\ RollbackCycle
          /\ UNCHANGED cycles

PreCommitSettled ==
    /\ pc = "preCommit"
    /\ pos > Len(roster)
    /\ ~mutated
    /\ Enter("settled", "Settled")
    /\ UNCHANGED <<locks, roster, mutated, rounds, cycles>>

\* #executeSettled: one participant.
Settled ==
    /\ pc = "settled"
    /\ pos <= Len(roster)
    /\ \/ /\ pos' = pos + 1
          /\ Ran(roster[pos], "settled", TRUE)
          /\ UNCHANGED <<pc, status, locks, roster, mutated, rounds, pending, failed>>
       \/ RollbackCycle /\ Ran(roster[pos], "settled", FALSE)

StartCommit1 ==
    /\ pc = "settled"
    /\ pos > Len(roster)
    /\ Enter("commit1", "CommittingPhaseOne")
    /\ UNCHANGED <<locks, roster, mutated, rounds, cycles>>

-----------------------------------------------------------------------------
(* commit1, commit2 and rollback *)

Waiting(phase) == [commit1 |-> "commit1Wait", commit2 |-> "commit2Wait",
                   rollback |-> "rollbackWait"][phase]

\* The loop calls the hook of the next participant: it succeeds, fails, or returns a
\* promise.  Only commit1 stops at a failure.
CallHook(phase) ==
    LET p == roster[pos] IN
    /\ pc = phase
    /\ pos <= Len(roster)
    /\ \/ /\ Ran(p, phase, TRUE)
          /\ UNCHANGED <<pc, pending, failed>>
       \/ /\ Ran(p, phase, FALSE)
          /\ failed' = TRUE
          /\ pc' = IF phase = "commit1" THEN Waiting(phase) ELSE pc
          /\ UNCHANGED pending
       \/ /\ pending' = pending \cup {p}
          /\ UNCHANGED <<pc, failed, cycles>>
    /\ pos' = pos + 1
    /\ UNCHANGED <<status, locks, roster, mutated, rounds>>

EndLoop(phase) ==
    /\ pc = phase
    /\ pos > Len(roster)
    /\ pc' = Waiting(phase)
    /\ UNCHANGED <<status, locks, roster, pos, mutated, rounds, pending, failed, cycles>>

\* A promise of the loop settles.
HookSettles(phase) ==
    /\ pc = Waiting(phase)
    /\ \E p \in pending, ok \in BOOLEAN :
          /\ pending' = pending \ {p}
          /\ Ran(p, phase, ok)
          /\ failed' = (failed \/ ~ok)
    /\ UNCHANGED <<pc, status, locks, roster, pos, mutated, rounds>>

\* abortIfFailed, or phase two.
Commit1Done ==
    /\ pc = "commit1Wait"
    /\ pending = {}
    /\ \/ failed /\ RollbackCycle /\ UNCHANGED cycles
       \/ /\ ~failed
          /\ Enter("commit2", "CommittingPhaseTwo")
          /\ UNCHANGED <<locks, roster, mutated, rounds, cycles>>

\* The participants that the loop which just ended has called.
Called == SubSeq(roster, 1, pos - 1)

\* The cycle's outcome, and #reset, which releases the locks and the participants.
Finalize(outcome, phase) ==
    /\ cycles' = [cycles EXCEPT ![Depth].outcome = outcome, ![Depth].reportees = Called]
    /\ locks' = FALSE
    /\ roster' = <<>>
    /\ pos' = 1
    /\ pc' = phase
    /\ status' = IF phase = "conclusion" THEN "Concluding" ELSE "Shared"
    /\ UNCHANGED <<mutated, rounds, pending, failed>>

\* Slip: a failure of phase two rolls back.
Commit2DoneOrRollback ==
    /\ pc = "commit2Wait"
    /\ pending = {}
    /\ \/ failed /\ RollbackCycle /\ UNCHANGED cycles
       \/ ~failed /\ Finalize("committed", "postCommit")

Commit2Done ==
    /\ pc = "commit2Wait"
    /\ pending = {}
    /\ \/ failed /\ Finalize("inconsistent", "conclusion")
       \/ ~failed /\ Finalize("committed", "postCommit")

\* Slip: a participant that failed to revert goes unnoticed.
RollbackDoneUnchecked ==
    /\ pc = "rollbackWait"
    /\ pending = {}
    /\ Finalize("rolled back", "conclusion")

RollbackDone ==
    /\ pc = "rollbackWait"
    /\ pending = {}
    /\ Finalize(IF failed THEN "inconsistent" ELSE "rolled back", "conclusion")

-----------------------------------------------------------------------------
(* After the writes *)

\* postCommit of one participant; an error is only logged.
PostCommit ==
    /\ pc = "postCommit"
    /\ pos <= Len(cycles[Depth].reportees)
    /\ pos' = pos + 1
    /\ UNCHANGED <<pc, status, locks, roster, mutated, rounds, pending, failed, cycles>>

StartConclusion ==
    /\ pc' = "conclusion"
    /\ status' = "Concluding"
    /\ pos' = 1
    /\ UNCHANGED <<locks, roster, mutated, rounds, pending, failed, cycles>>

\* reportOutcome: the outcome is reported now, or after the cycle that a hook began.
\* A cycle too many throws TransactionFlowError, and the outcomes are reported as well.
PostCommitDone ==
    /\ pc = "postCommit"
    /\ pos > Len(cycles[Depth].reportees)
    /\ \/ status # "Exclusive" /\ StartConclusion
       \/ status = "Exclusive" /\ Depth < MAX_CHAINED_COMMITS /\ StartCycle
       \/ status = "Exclusive" /\ Depth >= MAX_CHAINED_COMMITS /\ StartConclusion

\* #conclude: one participant is told the outcome; an error is only logged.
Conclusion ==
    /\ pc = "conclusion"
    /\ Reporting > 0
    /\ pos <= Len(cycles[Reporting].reportees)
    /\ cycles' = [cycles EXCEPT ![Reporting].told[cycles[Reporting].reportees[pos]] = @ + 1]
    /\ pos' = pos + 1
    /\ UNCHANGED <<pc, status, locks, roster, mutated, rounds, pending, failed>>

\* Slip: the report of a nested cycle stands in for the others.
ConcludedForAll ==
    /\ pc = "conclusion"
    /\ Reporting > 0
    /\ pos > Len(cycles[Reporting].reportees)
    /\ cycles' = [i \in 1 .. Depth |-> [cycles[i] EXCEPT !.concluded = TRUE]]
    /\ pos' = 1
    /\ UNCHANGED <<pc, status, locks, roster, mutated, rounds, pending, failed>>

\* The cycle that began this one reports next, whatever became of this one.
Concluded ==
    /\ pc = "conclusion"
    /\ Reporting > 0
    /\ pos > Len(cycles[Reporting].reportees)
    /\ cycles' = [cycles EXCEPT ![Reporting].concluded = TRUE]
    /\ pos' = 1
    /\ UNCHANGED <<pc, status, locks, roster, mutated, rounds, pending, failed>>

\* All is reported.  The transaction is destroyed; reject() first rolls back what is
\* left of one that is still exclusive.
End ==
    /\ pc = "conclusion"
    /\ Reporting = 0
    /\ \/ locks /\ StartRollback
       \/ /\ ~locks
          /\ pc' = "destroyed"
          /\ status' = "Destroyed"
          /\ UNCHANGED <<locks, roster, pos, mutated, rounds, pending, failed, cycles>>

Destroyed == pc = "destroyed" /\ UNCHANGED vars

Init ==
    /\ pc = "user"
    /\ status = "Shared"
    /\ locks = FALSE
    /\ roster = <<>>
    /\ pos = 1
    /\ mutated = FALSE
    /\ rounds = 1
    /\ pending = {}
    /\ failed = FALSE
    /\ cycles = <<>>

Step ==
    \/ PreCommit \/ NextPreCommitCycle \/ PreCommitSettled \/ Settled \/ StartCommit1
    \/ \E phase \in {"commit1", "commit2", "rollback"} :
          CallHook(phase) \/ EndLoop(phase) \/ HookSettles(phase)
    \/ Commit1Done \/ Commit2Done \/ RollbackDone
    \/ PostCommit \/ PostCommitDone \/ Conclusion \/ Concluded \/ End

Next == Step \/ Commit \/ Reject \/ Begin \/ Destroyed
        \/ \E p \in Participants : AddParticipants(p)

\* The hooks of participants return and their promises settle.
Fairness == WF_vars(Step)

Spec == Init /\ [][Next]_vars
FairSpec == Spec /\ Fairness

-----------------------------------------------------------------------------
CycleType ==
    [reportees : Seq(Participants), outcome : Outcomes \cup {Undefined},
     concluded : BOOLEAN, ran : [Participants -> SUBSET (Hooks \X BOOLEAN)],
     told : [Participants -> Nat]]

\* Types of the variables, with the two maxima: no more pre-commit cycles and chained
\* commits than the code allows (one more cycle is the rollback of reject).
TypeOK ==
    /\ pc \in {"user", "preCommit", "settled", "commit1", "commit1Wait", "commit2",
               "commit2Wait", "rollback", "rollbackWait", "postCommit", "conclusion",
               "destroyed"}
    /\ status \in {"Shared", "Exclusive", "Settled", "CommittingPhaseOne",
                   "CommittingPhaseTwo", "RollingBack", "Concluding", "Destroyed"}
    /\ locks \in BOOLEAN /\ mutated \in BOOLEAN /\ failed \in BOOLEAN
    /\ roster \in Seq(Participants)
    /\ pos \in Nat
    /\ rounds \in 1 .. MAX_PRECOMMIT_CYCLES
    /\ pending \subseteq Participants
    /\ cycles \in Seq(CycleType)
    /\ Depth <= MAX_CHAINED_COMMITS + 1

HasRun(c, p, hook) == \E ok \in BOOLEAN : <<hook, ok>> \in c.ran[p]

\* The outcome that is reported is what happened, to every participant: committed if
\* all of those told made their writes canonical, rolled back if nothing stands and
\* whoever had begun to write has reverted, inconsistent only if some of it failed.
TruthfulOutcome ==
    \A i \in 1 .. Depth : LET c == cycles[i] IN
        /\ c.outcome = "committed" =>
              \A p \in Participants :
                  /\ p \in Elements(c.reportees) => <<"commit2", TRUE>> \in c.ran[p]
                  /\ <<"commit2", FALSE>> \notin c.ran[p] /\ ~HasRun(c, p, "rollback")
        /\ c.outcome = "rolled back" =>
              \A p \in Participants :
                  /\ ~HasRun(c, p, "commit2")
                  /\ c.ran[p] # {} => <<"rollback", TRUE>> \in c.ran[p]
        /\ c.outcome = "inconsistent" =>
              \E p \in Participants : {<<"commit2", FALSE>>, <<"rollback", FALSE>>} \cap c.ran[p] # {}

\* Once one participant has made its writes canonical, no phase one of another has
\* failed or is still under way, and nobody rolls back any more.
PointOfNoReturn ==
    \A i \in 1 .. Depth : LET c == cycles[i] IN
        (\E p \in Participants : HasRun(c, p, "commit2")) =>
            \A q \in Participants : <<"commit1", FALSE>> \notin c.ran[q] /\ ~HasRun(c, q, "rollback")

\* Nobody stages a write before everyone who took part in pre-commit has accepted the
\* settled values.
SettledBeforeWrites ==
    \A i \in 1 .. Depth : LET c == cycles[i] IN
        (\E p \in Participants : HasRun(c, p, "commit1")) =>
            \A q \in Participants :
                HasRun(c, q, "preCommit") => <<"settled", TRUE>> \in c.ran[q]

\* No hook that writes outlives the locks, save in the rollback of a transaction that
\* never had any.
NoHookOutlivesLocks ==
    pending # {} /\ ~locks =>
        \A p \in Participants : cycles[Depth].ran[p] \subseteq {"rollback"} \X BOOLEAN

\* The phases of a commit come in order and none runs into the next: all have accepted
\* the settled values before one writes, all phases one have succeeded before one commit
\* is canonical, and all hooks have ended before the locks are released.
PhasesInOrder == SettledBeforeWrites /\ PointOfNoReturn /\ NoHookOutlivesLocks

\* Whoever was reached by phase two or by a rollback is told the outcome of that cycle,
\* once, before the transaction is destroyed.
EveryoneIsTold ==
    \A i \in 1 .. Depth : \A p \in Participants :
        /\ cycles[i].told[p] <= 1
        /\ pc = "destroyed" /\ (HasRun(cycles[i], p, "commit2") \/ HasRun(cycles[i], p, "rollback")) =>
              cycles[i].told[p] = 1

\* A commit or rollback ends, however often state changes or commits cascade.
CommitEnds == pc # "user" ~> pc = "destroyed"

=============================================================================
