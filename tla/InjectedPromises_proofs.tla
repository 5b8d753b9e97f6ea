----------------------- MODULE InjectedPromises_proofs -----------------------
(***************************************************************************)
(* Proofs that the store of injected promises keeps what it was told, for  *)
(* any number of processes, any ages and intervals, and any write failing. *)
(***************************************************************************)
EXTENDS InjectedPromises, TLAPS

\* A process opening the store for a purpose.
OpeningFor(c, purposes) == c.step \in {"open", "delete", "stamp"} /\ c.purpose \in purposes

\* A process that resumes sends nothing, one that sends does so once; one that
\* journals has an outcome, and reached the second statement without the first
\* only if that one failed.
\* Between the statements its row is pending, and it is the only one to change
\* it; afterwards the row says what was reported until it is old.
JobOK(p) ==
  LET c == cmd[p] IN
  /\ c.seen <= now /\ c.at <= now
  /\ (c.step \in {"idle", "read", "send"} \/ OpeningFor(c, {"send", "resume", "read"})) => ~Sent(p)
  /\ (c.step \in {"insert", "mark"} \/ OpeningFor(c, {"insert", "mark"})) =>
       c.result \in Outcomes /\ (c.result = "resolved" => net[p] = "executed")
  /\ OpeningFor(c, {"mark"}) => p \in lost
  /\ (c.step = "mark" /\ p \notin lost) =>
       p \in DOMAIN rows /\ rows[p].status = "pending" /\ rows[p].at = c.at
  /\ (c.step = "done" /\ Sent(p) /\ c.result \in Outcomes /\ p \notin lost) =>
       \/ now - c.at > Age
       \/ p \in DOMAIN rows /\ rows[p].status = c.result /\ rows[p].at = c.at

JobInv == \A p \in Commands : JobOK(p)

\* A row that is settled says what its process, which is done, reported.
RowTruth ==
  \A q \in DOMAIN rows \cap Commands :
    rows[q].status \in Outcomes => At(q, "done") /\ cmd[q].result = rows[q].status

\* A process that journals is not resuming, and one that resumed reported the truth.
ResumeOK(p) ==
  LET c == cmd[p]
      m == c.about
  IN  /\ c.step \in {"insert", "mark"} => c.purpose \in {"insert", "mark"}
      /\ (c.step = "done" /\ c.purpose \in {"resume", "read"} /\ c.result \in Outcomes) =>
           /\ c.result = "resolved" => net[m] = "executed"
           /\ m \in Commands => At(m, "done") /\ cmd[m].result = c.result

ResumeInv == \A p \in Commands : ResumeOK(p)

IInv == TypeOK /\ JobInv /\ ResolvedTruth /\ RowTruth /\ ResumeInv
-----------------------------------------------------------------------------
(* Types                                                                   *)

LEMMA BecomeType ==
  ASSUME TypeOK, NEW p \in Commands, NEW c \in Command, Become(p, c)
  PROVE  cmd' \in [Commands -> Command]
  BY DEF TypeOK, Become

\* The types of what a process reads.
LEMMA JobType ==
  ASSUME TypeOK, NEW p \in Commands
  PROVE  /\ cmd[p] \in Command
         /\ now \in Nat
         /\ p \in Messages
  BY PromiseAssumption DEF TypeOK, Messages

LEMMA OpenedType ==
  ASSUME TypeOK, NEW p \in Commands, Opened(p)
  PROVE  cmd' \in [Commands -> Command]
<1> DEFINE next == cmd[p].purpose
           c == [cmd[p] EXCEPT !.opened = TRUE,
                               !.step = IF next = "resume" THEN "read" ELSE next]
<1>1. cmd[p] \in Command
  BY JobType
<1>2. c \in Command
  BY <1>1 DEF Command, Purposes, Steps
<1> QED
  BY <1>2, BecomeType DEF Opened

LEMMA FinishType ==
  ASSUME TypeOK, NEW p \in Commands, NEW r \in Results, Finish(p, r)
  PROVE  cmd' \in [Commands -> Command]
<1>1. [cmd[p] EXCEPT !.step = "done", !.result = r] \in Command
  BY JobType DEF Command, Steps
<1> QED
  BY <1>1, BecomeType DEF Finish

LEMMA NotOpenedType ==
  ASSUME TypeOK, NEW p \in Commands, NotOpened(p)
  PROVE  cmd' \in [Commands -> Command]
<1>1. cmd[p] \in Command
  BY JobType
<1>2. CASE cmd[p].purpose = "send"
  <2>1. [cmd[p] EXCEPT !.step = "send"] \in Command
    BY <1>1 DEF Command, Steps
  <2> QED
    BY <1>2, <2>1, BecomeType DEF NotOpened
<1>3. CASE cmd[p].purpose = "resume"
  <2>1. [cmd[p] EXCEPT !.step = "open", !.purpose = "read"] \in Command
    BY <1>1 DEF Command, Steps, Purposes
  <2> QED
    BY <1>3, <2>1, BecomeType DEF NotOpened
<1>4. CASE cmd[p].purpose = "insert"
  <2>1. [cmd[p] EXCEPT !.step = "open", !.purpose = "mark"] \in Command
    BY <1>1 DEF Command, Steps, Purposes
  <2> QED
    BY <1>4, <2>1, BecomeType DEF NotOpened
<1>5. CASE cmd[p].purpose = "read"
  BY <1>5, FinishType DEF NotOpened, Results
<1>6. CASE cmd[p].purpose = "mark"
  BY <1>1, <1>6, FinishType DEF NotOpened, Command
<1> QED
  BY <1>1, <1>2, <1>3, <1>4, <1>5, <1>6 DEF Command, Purposes

LEMMA JobStepType ==
  ASSUME TypeOK, [Next]_vars
  PROVE  cmd' \in [Commands -> Command]
<1>1. CASE UNCHANGED cmd
  BY <1>1 DEF TypeOK
<1> SUFFICES ASSUME NEW p \in Commands,
                    \/ Begin(p) \/ Resume(p) \/ Read(p)
                    \/ Open(p) \/ Delete(p) \/ Stamp(p) \/ OpenFails(p)
                    \/ Send(p) \/ Answered(p) \/ SendFails(p)
                    \/ Insert(p) \/ Mark(p) \/ JournalFails(p) \/ Die(p)
             PROVE  cmd' \in [Commands -> Command]
  BY <1>1 DEF Next, Tick, Execute, vars
<1>2. cmd[p] \in Command /\ now \in Nat /\ p \in Messages
  BY JobType
<1>3. CASE Begin(p)
  <2>1. [cmd[p] EXCEPT !.step = "open", !.purpose = "send"] \in Command
    BY <1>2 DEF Command, Steps, Purposes
  <2> QED
    BY <1>3, <2>1, BecomeType DEF Begin
<1>4. CASE Resume(p)
  <2>1. PICK m \in Messages : Become(p, [cmd[p] EXCEPT !.step = "open", !.purpose = "resume",
                                                        !.about = m])
    BY <1>4 DEF Resume
  <2>2. [cmd[p] EXCEPT !.step = "open", !.purpose = "resume", !.about = m] \in Command
    BY <1>2 DEF Command, Steps, Purposes
  <2> QED
    BY <2>1, <2>2, BecomeType
<1>5. CASE Read(p)
  <2> DEFINE m == cmd[p].about
             r == IF m \notin DOMAIN rows THEN "RESUME_NOT_FOUND"
                  ELSE IF rows[m].status = "pending" THEN "RESUME_PENDING_NOT_SUPPORTED"
                  ELSE rows[m].status
  <2>1. r \in Results
    BY DEF TypeOK, PromiseRow, Results
  <2> QED
    BY <1>5, <2>1, FinishType DEF Read
<1>6. CASE Open(p)
  <2>1. [cmd[p] EXCEPT !.step = "delete", !.seen = now] \in Command
    BY <1>2 DEF Command, Steps
  <2> QED
    BY <1>6, <2>1, BecomeType, OpenedType DEF Open
<1>7. CASE Delete(p)
  <2>1. [cmd[p] EXCEPT !.step = "stamp"] \in Command
    BY <1>2 DEF Command, Steps
  <2> QED
    BY <1>7, <2>1, BecomeType DEF Delete
<1>8. CASE Stamp(p) \/ OpenFails(p)
  BY <1>8, OpenedType, NotOpenedType DEF Stamp, OpenFails
<1>9. CASE Send(p)
  <2>1. [cmd[p] EXCEPT !.step = "wait"] \in Command
    BY <1>2 DEF Command, Steps
  <2> QED
    BY <1>9, <2>1, BecomeType DEF Send
<1>10. CASE Answered(p)
  <2>1. \A r \in Outcomes :
          [cmd[p] EXCEPT !.step = IF cmd[p].opened THEN "insert" ELSE "open",
                         !.purpose = "insert", !.result = r] \in Command
    <3> SUFFICES ASSUME NEW r \in Outcomes
                 PROVE  [cmd[p] EXCEPT !.step = IF cmd[p].opened THEN "insert" ELSE "open",
                                       !.purpose = "insert", !.result = r] \in Command
      OBVIOUS
    <3> DEFINE step == IF cmd[p].opened THEN "insert" ELSE "open"
    <3>1. step \in Steps /\ "insert" \in Purposes /\ r \in Results
      BY DEF Steps, Purposes, Results
    <3> HIDE DEF step
    <3>2. [cmd[p] EXCEPT !.step = step, !.purpose = "insert", !.result = r] \in Command
      BY <1>2, <3>1 DEF Command
    <3> QED
      BY <3>2 DEF step
  <2> QED
    BY <1>10, <2>1, BecomeType DEF Answered, ToJournal, Outcomes
<1>11. CASE SendFails(p)
  BY <1>11, FinishType DEF SendFails, Results
<1>12. CASE Insert(p)
  <2>1. [cmd[p] EXCEPT !.step = "mark", !.at = now] \in Command
    BY <1>2 DEF Command, Steps
  <2> QED
    BY <1>12, <2>1, BecomeType DEF Insert
<1>13. CASE Mark(p) \/ JournalFails(p)
  BY <1>2, <1>13, FinishType DEF Mark, JournalFails, Command
<1>14. CASE Die(p)
  <2>1. [cmd[p] EXCEPT !.step = "dead"] \in Command
    BY <1>2 DEF Command, Steps
  <2> QED
    BY <1>14, <2>1, BecomeType DEF Die
<1> QED
  BY <1>3, <1>4, <1>5, <1>6, <1>7, <1>8, <1>9, <1>10, <1>11, <1>12, <1>13, <1>14

\* What a step does to the table: nothing, a clean-up, an insert or a mark.
LEMMA TableStep ==
  ASSUME TypeOK, JobInv, [Next]_vars
  PROVE  \/ rows' = rows
         \/ \E p \in Commands :
              /\ UNCHANGED <<now, net, lost>>
              /\ \/ Delete(p) \/ Insert(p) \/ (Mark(p) /\ cmd[p].result \in Outcomes)
  BY DEF Next, vars, Tick, Execute, Begin, Resume, Read, Open, Delete, Stamp, OpenFails,
         Send, Answered, SendFails, Insert, Mark, JournalFails, Die, JobInv, JobOK, At

LEMMA TypeStep ==
  ASSUME TypeOK, JobInv, [Next]_vars
  PROVE  TypeOK'
<1>1. now' \in Start..MaxTime
  <2>1. now' = now \/ Tick
    BY DEF Next, vars, Execute, Begin, Resume, Read, Open, Delete, Stamp, OpenFails,
           Send, Answered, SendFails, Insert, Mark, JournalFails, Die
  <2>2. now \in Nat /\ MaxTime \in Nat /\ Start \in Nat
    BY PromiseAssumption DEF TypeOK
  <2> QED
    BY <2>1, <2>2 DEF TypeOK, Tick
<1>2. DOMAIN rows' \subseteq Messages /\ rows' \in [DOMAIN rows' -> PromiseRow]
  <2>1. CASE rows' = rows
    BY <2>1 DEF TypeOK
  <2>2. ASSUME NEW p \in Commands, Delete(p)
        PROVE  DOMAIN rows' \subseteq Messages /\ rows' \in [DOMAIN rows' -> PromiseRow]
    BY <2>2 DEF TypeOK, Delete
  <2>3. ASSUME NEW p \in Commands, Insert(p)
        PROVE  DOMAIN rows' \subseteq Messages /\ rows' \in [DOMAIN rows' -> PromiseRow]
    BY <2>3, JobType DEF TypeOK, Insert, WithPending, PromiseRow
  <2>4. ASSUME NEW p \in Commands, Mark(p), cmd[p].result \in Outcomes
        PROVE  DOMAIN rows' \subseteq Messages /\ rows' \in [DOMAIN rows' -> PromiseRow]
    BY <2>4 DEF TypeOK, Mark, Marked, PromiseRow
  <2> QED
    BY <2>1, <2>2, <2>3, <2>4, TableStep
<1>3. stamp' \in SUBSET Nat /\ \A s, t \in stamp' : s = t
  <2>1. stamp' = stamp \/ \E p \in Commands : stamp' = {cmd[p].seen}
    BY DEF Next, vars, Tick, Execute, Begin, Resume, Read, Open, Delete, Stamp, OpenFails,
           Send, Answered, SendFails, Insert, Mark, JournalFails, Die
  <2> QED
    BY <2>1, JobType DEF TypeOK, Command
<1>4. net' \in [Messages -> {"unsent", "inflight", "executed"}]
  <2>1. \/ net' = net
        \/ \E m \in Messages : net' = [net EXCEPT ![m] = "inflight"]
        \/ \E m \in Messages : net' = [net EXCEPT ![m] = "executed"]
    BY JobType
    DEF Next, vars, Tick, Execute, Begin, Resume, Read, Open, Delete, Stamp, OpenFails,
        Send, Answered, SendFails, Insert, Mark, JournalFails, Die
  <2> QED
    BY <2>1 DEF TypeOK
<1>5. lost' \subseteq Commands
  BY DEF TypeOK, Next, vars, Tick, Execute, Begin, Resume, Read, Open, Delete, Stamp, OpenFails,
         NotOpened, Lose, Send, Answered, SendFails, Insert, Mark, JournalFails, Die
<1> QED
  BY <1>1, <1>2, <1>3, <1>4, <1>5, JobStepType DEF TypeOK
-----------------------------------------------------------------------------
(* What every process holds                                                *)

\* A row of another process changes only by a clean-up, once it is old.
Kept(q) == q \in DOMAIN rows =>
             \/ q \in DOMAIN rows' /\ rows'[q] = rows[q]
             \/ rows[q].status # "pending" /\ now - rows[q].at > Age

LEMMA OthersKeep ==
  ASSUME TypeOK, JobInv, NEW q \in Commands, now' = now, cmd'[q] = cmd[q],
         net'[q] = net[q], q \in lost => q \in lost', q \in lost' => q \in lost, Kept(q)
  PROVE  JobOK(q)'
  BY DEF JobInv, JobOK, OpeningFor, Sent, Kept

\* A clean-up spares what is pending or young.
LEMMA CleanupKeeps ==
  ASSUME TypeOK, JobInv, NEW p \in Commands, Delete(p), NEW q \in Messages
  PROVE  Kept(q)
<1>1. cmd[p].seen \in Nat /\ now \in Nat /\ cmd[p].seen <= now /\ Age \in Nat
  BY JobType, PromiseAssumption DEF JobInv, JobOK, Command
<1>2. SUFFICES ASSUME q \in DOMAIN rows PROVE Kept(q)
  BY DEF Kept
<1>3. rows[q].at \in Nat
  BY <1>2 DEF TypeOK, PromiseRow
<1>4. CASE q \in Removable(cmd[p].seen)
  BY <1>1, <1>3, <1>4 DEF Removable, Kept
<1>5. CASE q \notin Removable(cmd[p].seen)
  BY <1>2, <1>5 DEF Delete, Kept
<1> QED
  BY <1>4, <1>5

\* The processes that do not move.
LEMMA OthersStep ==
  ASSUME TypeOK, JobInv, NEW p \in Commands, NEW q \in Commands \ {p},
         \/ Begin(p) \/ Resume(p) \/ Read(p)
         \/ Open(p) \/ Delete(p) \/ Stamp(p) \/ OpenFails(p)
         \/ Send(p) \/ Answered(p) \/ SendFails(p)
         \/ Insert(p) \/ Mark(p) \/ JournalFails(p) \/ Die(p)
  PROVE  cmd'[q] = cmd[q] /\ JobOK(q)'
<1>1. now' = now
  BY DEF Begin, Resume, Read, Open, Delete, Stamp, OpenFails,
         Send, Answered, SendFails, Insert, Mark, JournalFails, Die
<1>2. cmd'[q] = cmd[q]
  <2>1. \A c : Become(p, c) => cmd'[q] = cmd[q]
    BY DEF TypeOK, Become
  <2>2. NotOpened(p) => \E c : Become(p, c)
    BY JobType DEF NotOpened, Finish, Command, Purposes
  <2> QED
    BY <2>1, <2>2 DEF Begin, Resume, Read, Open, Delete, Stamp, OpenFails, Opened,
       Send, Answered, ToJournal, SendFails, Insert, Mark, JournalFails, Die, Finish
<1>3. net'[q] = net[q] /\ (q \in lost' => q \in lost) /\ (q \in lost => q \in lost')
  BY DEF TypeOK, Begin, Resume, Read, Open, Delete, Stamp, OpenFails, NotOpened, Lose,
         Send, Answered, SendFails, Insert, Mark, JournalFails, Die, Messages
<1>4. Kept(q)
  <2>1. CASE rows' = rows
    BY <2>1 DEF Kept
  <2>2. CASE Delete(p)
    BY <2>2, CleanupKeeps DEF Messages
  <2>3. CASE Insert(p) \/ Mark(p)
    BY <2>3 DEF Insert, Mark, WithPending, Marked, Kept
  <2> QED
    BY <2>1, <2>2, <2>3 DEF Begin, Resume, Read, Open, Stamp, OpenFails,
       Send, Answered, SendFails, JournalFails, Die
<1> QED
  BY <1>1, <1>2, <1>3, <1>4, OthersKeep

\* Where the open store leads, and where a store that does not open.
LEMMA OpenedKeeps ==
  ASSUME TypeOK, JobInv, NEW p \in Commands, Opened(p), now' = now, net' = net,
         lost' = lost, rows' = rows, cmd[p].step \in {"open", "delete", "stamp"}
  PROVE  JobOK(p)'
<1>1. cmd[p] \in Command /\ cmd \in [Commands -> Command]
  BY JobType DEF TypeOK
<1>2. JobOK(p)
  BY DEF JobInv
<1> QED
  BY <1>1, <1>2 DEF Opened, Become, JobOK, OpeningFor, Sent, Command, Purposes

LEMMA NotOpenedKeeps ==
  ASSUME TypeOK, JobInv, NEW p \in Commands, NotOpened(p), now' = now, net' = net,
         rows' = rows, cmd[p].step \in {"open", "delete", "stamp"}
  PROVE  JobOK(p)'
<1>1. cmd[p] \in Command /\ cmd \in [Commands -> Command]
  BY JobType DEF TypeOK
<1>2. JobOK(p)
  BY DEF JobInv
<1>3. cmd[p].purpose \in Purposes
  BY <1>1 DEF Command
<1>4. CASE cmd[p].purpose \in {"send", "resume"}
  <2>1. /\ cmd'[p].seen = cmd[p].seen /\ cmd'[p].at = cmd[p].at
        /\ \/ cmd'[p].step = "send"
           \/ cmd'[p].step = "open" /\ cmd'[p].purpose = "read"
    <3>1. CASE cmd[p].purpose = "send"
      <4>1. cmd'[p] = [cmd[p] EXCEPT !.step = "send"]
        BY <1>1, <3>1 DEF NotOpened, Become
      <4> QED
        BY <1>1, <4>1 DEF Command
    <3>2. CASE cmd[p].purpose = "resume"
      <4>1. cmd'[p] = [cmd[p] EXCEPT !.step = "open", !.purpose = "read"]
        BY <1>1, <3>2 DEF NotOpened, Become
      <4> QED
        BY <1>1, <4>1 DEF Command
    <3> QED
      BY <1>4, <3>1, <3>2
  <2>2. lost' = lost
    BY <1>4 DEF NotOpened
  <2>3. ~Sent(p)
    BY <1>2, <1>4 DEF JobOK, OpeningFor
  <2>4. ~Sent(p)'
    BY <2>3 DEF Sent
  <2>5. cmd[p].seen <= now /\ cmd[p].at <= now
    BY <1>2 DEF JobOK
  <2>6. cmd'[p].step \in {"send", "open"} /\ (cmd'[p].step = "open" => cmd'[p].purpose = "read")
    BY <2>1
  <2> QED
    BY <2>1, <2>4, <2>5, <2>6 DEF JobOK, OpeningFor
<1>5. CASE cmd[p].purpose = "read"
  <2>1. cmd'[p] = [cmd[p] EXCEPT !.step = "done", !.result = "RESUME_NOT_FOUND"]
    BY <1>1, <1>5 DEF NotOpened, Become, Finish
  <2> QED
    BY <1>1, <1>2, <1>5, <2>1 DEF NotOpened, JobOK, OpeningFor, Sent, Command, Outcomes
<1>6. CASE cmd[p].purpose = "insert"
  <2>1. cmd'[p] = [cmd[p] EXCEPT !.step = "open", !.purpose = "mark"] /\ p \in lost'
    BY <1>1, <1>6 DEF NotOpened, Become, Lose
  <2> QED
    BY <1>1, <1>2, <1>6, <2>1 DEF JobOK, OpeningFor, Sent, Command
<1>7. CASE cmd[p].purpose = "mark"
  <2>1. cmd'[p] = [cmd[p] EXCEPT !.step = "done", !.result = cmd[p].result] /\ lost' = lost
    BY <1>1, <1>7 DEF NotOpened, Become, Finish
  <2> QED
    BY <1>1, <1>2, <1>7, <2>1 DEF JobOK, OpeningFor, Sent, Command
<1> QED
  BY <1>3, <1>4, <1>5, <1>6, <1>7 DEF Purposes

\* The process that moves.
LEMMA MoverStep ==
  ASSUME TypeOK, JobInv, NEW p \in Commands,
         \/ Begin(p) \/ Resume(p) \/ Read(p)
         \/ Open(p) \/ Delete(p) \/ Stamp(p) \/ OpenFails(p)
         \/ Send(p) \/ Answered(p) \/ SendFails(p)
         \/ Insert(p) \/ Mark(p) \/ JournalFails(p) \/ Die(p)
  PROVE  JobOK(p)'
<1>1. cmd[p] \in Command /\ cmd \in [Commands -> Command] /\ now \in Nat
  BY JobType DEF TypeOK
<1>2. JobOK(p)
  BY DEF JobInv
<1>3. CASE Begin(p)
  BY <1>1, <1>2, <1>3 DEF Begin, At, Become, JobOK, OpeningFor, Sent, Command
<1>4. CASE Resume(p)
  <2>1. PICK m \in Messages : Become(p, [cmd[p] EXCEPT !.step = "open", !.purpose = "resume",
                                                        !.about = m])
    BY <1>4 DEF Resume
  <2>2. cmd'[p] = [cmd[p] EXCEPT !.step = "open", !.purpose = "resume", !.about = m]
    BY <1>1, <2>1 DEF Become
  <2> QED
    BY <1>1, <1>2, <1>4, <2>2 DEF Resume, At, JobOK, OpeningFor, Sent, Command
<1>5. CASE Read(p)
  BY <1>1, <1>2, <1>5 DEF Read, At, Become, Finish, JobOK, OpeningFor, Sent, Command
<1>6. CASE Open(p)
  <2>1. CASE CleanupDue
    <3>1. cmd'[p] = [cmd[p] EXCEPT !.step = "delete", !.seen = now]
      BY <1>1, <1>6, <2>1 DEF Open, Become
    <3> QED
      BY <1>1, <1>2, <1>6, <3>1 DEF Open, At, JobOK, OpeningFor, Sent, Command
  <2>2. CASE ~CleanupDue
    BY <1>6, <2>2, OpenedKeeps DEF Open, At
  <2> QED
    BY <2>1, <2>2
<1>7. CASE Delete(p)
  <2>1. Kept(p)
    BY <1>7, CleanupKeeps DEF Messages
  <2> QED
    BY <1>1, <1>2, <1>7, <2>1 DEF Delete, At, Become, JobOK, OpeningFor, Sent, Command, Kept
<1>8. CASE Stamp(p) \/ OpenFails(p)
  BY <1>8, OpenedKeeps, NotOpenedKeeps DEF Stamp, OpenFails, At
<1>9. CASE Send(p)
  BY <1>1, <1>2, <1>9 DEF Send, At, Become, JobOK, OpeningFor, Sent, Command
<1>10. CASE Answered(p)
  <2>1. PICK r \in Outcomes : /\ ToJournal(p, r)
                              /\ r = "resolved" => net[p] = "executed"
    BY <1>10 DEF Answered, Outcomes
  <2>2. cmd'[p] = [cmd[p] EXCEPT !.step = IF cmd[p].opened THEN "insert" ELSE "open",
                                 !.purpose = "insert", !.result = r]
    BY <1>1, <2>1 DEF ToJournal, Become
  <2>3. cmd'[p].result = r /\ cmd'[p].purpose = "insert" /\ cmd'[p].step \in {"insert", "open"}
        /\ cmd'[p].seen = cmd[p].seen /\ cmd'[p].at = cmd[p].at
    BY <1>1, <2>2 DEF Command
  <2> QED
    BY <1>2, <1>10, <2>1, <2>3 DEF Answered, JobOK, OpeningFor, Sent
<1>11. CASE SendFails(p)
  BY <1>1, <1>2, <1>11 DEF SendFails, At, Become, Finish, JobOK, OpeningFor, Sent, Command, Outcomes
<1>12. CASE Insert(p)
  BY <1>1, <1>2, <1>12 DEF Insert, WithPending, At, Become, JobOK, OpeningFor, Sent, Command
<1>13. CASE Mark(p)
  BY <1>1, <1>2, <1>13 DEF Mark, Marked, At, Become, Finish, JobOK, OpeningFor, Sent, Command
<1>14. CASE JournalFails(p)
  BY <1>1, <1>2, <1>14 DEF JournalFails, Lose, At, Become, Finish, JobOK, OpeningFor, Sent, Command
<1>15. CASE Die(p)
  BY <1>1, <1>2, <1>15 DEF Die, Become, JobOK, OpeningFor, Sent, Command
<1> QED
  BY <1>3, <1>4, <1>5, <1>6, <1>7, <1>8, <1>9, <1>10, <1>11, <1>12, <1>13, <1>14, <1>15

LEMMA JobStep ==
  ASSUME TypeOK, JobInv, [Next]_vars
  PROVE  JobInv'
<1>1. CASE UNCHANGED vars
  BY <1>1 DEF vars, JobInv, JobOK, OpeningFor, Sent
<1>2. CASE Tick
  <2>1. now \in Nat /\ Age \in Nat /\ \A q \in Commands : cmd[q].seen \in Nat /\ cmd[q].at \in Nat
    BY JobType, PromiseAssumption DEF Command, TypeOK
  <2> QED
    BY <1>2, <2>1 DEF Tick, JobInv, JobOK, OpeningFor, Sent
<1>3. CASE Execute
  BY <1>3 DEF Execute, TypeOK, Messages, JobInv, JobOK, OpeningFor, Sent
<1>4. ASSUME NEW p \in Commands,
             \/ Begin(p) \/ Resume(p) \/ Read(p)
             \/ Open(p) \/ Delete(p) \/ Stamp(p) \/ OpenFails(p)
             \/ Send(p) \/ Answered(p) \/ SendFails(p)
             \/ Insert(p) \/ Mark(p) \/ JournalFails(p) \/ Die(p)
      PROVE  JobInv'
  BY <1>4, MoverStep, OthersStep DEF JobInv
<1> QED
  BY <1>1, <1>2, <1>3, <1>4 DEF Next
-----------------------------------------------------------------------------
(* The table, and the theorems                                             *)

LEMMA NetStep ==
  ASSUME TypeOK, JobInv, [Next]_vars, NEW m \in Messages, net[m] = "executed"
  PROVE  net'[m] = "executed"
<1>1. CASE Execute
  BY <1>1 DEF Execute, TypeOK
<1>2. ASSUME NEW p \in Commands, Send(p) PROVE net'[m] = "executed"
  BY <1>2 DEF Send, At, TypeOK, JobInv, JobOK, Sent, Messages
<1>3. CASE net' = net
  BY <1>3
<1> QED
  BY <1>1, <1>2, <1>3 DEF Next, vars, Tick, Begin, Resume, Read, Open, Delete, Stamp, OpenFails,
     Answered, SendFails, Insert, Mark, JournalFails, Die

LEMMA ResolvedStep ==
  ASSUME TypeOK, JobInv, ResolvedTruth, [Next]_vars
  PROVE  ResolvedTruth'
<1> SUFFICES ASSUME NEW m \in DOMAIN rows', rows'[m].status = "resolved"
             PROVE  net'[m] = "executed"
  BY DEF ResolvedTruth
<1>1. CASE m \in DOMAIN rows /\ rows[m].status = "resolved"
  BY <1>1, NetStep DEF TypeOK, ResolvedTruth
<1>2. ASSUME NEW p \in Commands, Delete(p)
      PROVE  m \in DOMAIN rows /\ rows[m].status = "resolved"
  BY <1>2 DEF Delete
<1>3. ASSUME NEW p \in Commands, Insert(p)
      PROVE  m \in DOMAIN rows /\ rows[m].status = "resolved"
  BY <1>3 DEF Insert, WithPending
<1>4. ASSUME NEW p \in Commands, Mark(p), ~(m \in DOMAIN rows /\ rows[m].status = "resolved"),
             UNCHANGED net
      PROVE  net'[m] = "executed"
  <2>1. m = p /\ cmd[p].result = "resolved"
    BY <1>4 DEF Mark, Marked
  <2> QED
    BY <1>4, <2>1 DEF Mark, At, JobInv, JobOK
<1> QED
  BY <1>1, <1>2, <1>3, <1>4, TableStep

\* A process that is done does nothing more.
LEMMA DoneStays ==
  ASSUME TypeOK, JobInv, [Next]_vars, NEW q \in Commands, At(q, "done")
  PROVE  cmd'[q] = cmd[q] /\ At(q, "done")'
<1>1. cmd'[q] = cmd[q]
  <2>1. CASE UNCHANGED cmd
    BY <2>1
  <2>2. ASSUME NEW p \in Commands,
               \/ Begin(p) \/ Resume(p) \/ Read(p)
               \/ Open(p) \/ Delete(p) \/ Stamp(p) \/ OpenFails(p)
               \/ Send(p) \/ Answered(p) \/ SendFails(p)
               \/ Insert(p) \/ Mark(p) \/ JournalFails(p) \/ Die(p)
        PROVE  cmd'[q] = cmd[q]
    <3>1. p # q
      BY <2>2 DEF Begin, Resume, Read, Open, Delete, Stamp, OpenFails,
             Send, Answered, SendFails, Insert, Mark, JournalFails, Die, At
    <3> QED
      BY <2>2, <3>1, OthersStep
  <2> QED
    BY <2>1, <2>2 DEF Next, vars, Tick, Execute
<1> QED
  BY <1>1 DEF At

LEMMA RowTruthStep ==
  ASSUME TypeOK, JobInv, RowTruth, [Next]_vars
  PROVE  RowTruth'
<1> SUFFICES ASSUME NEW q \in DOMAIN rows' \cap Commands, rows'[q].status \in Outcomes
             PROVE  At(q, "done")' /\ cmd'[q].result = rows'[q].status
  BY DEF RowTruth
<1>1. CASE q \in DOMAIN rows /\ rows[q] = rows'[q]
  BY <1>1, DoneStays DEF RowTruth
<1>2. ASSUME NEW p \in Commands, Delete(p) PROVE q \in DOMAIN rows /\ rows[q] = rows'[q]
  BY <1>2 DEF Delete
<1>3. ASSUME NEW p \in Commands, Insert(p) PROVE q \in DOMAIN rows /\ rows[q] = rows'[q]
  BY <1>3 DEF Insert, WithPending, Outcomes
<1>4. ASSUME NEW p \in Commands, Mark(p), ~(q \in DOMAIN rows /\ rows[q] = rows'[q])
      PROVE  At(q, "done")' /\ cmd'[q].result = rows'[q].status
  <2>1. q = p /\ rows'[q].status = cmd[p].result
    BY <1>4 DEF Mark, Marked, TypeOK, PromiseRow
  <2>2. cmd'[p] = [cmd[p] EXCEPT !.step = "done", !.result = cmd[p].result]
    BY <1>4 DEF Mark, Finish, Become, TypeOK
  <2> QED
    BY <2>1, <2>2, JobType DEF At, Command
<1> QED
  BY <1>1, <1>2, <1>3, <1>4, TableStep

\* What a resumed outcome is compared with does not change.
LEMMA ResumedKeeps ==
  ASSUME TypeOK, JobInv, [Next]_vars, NEW q \in Commands, cmd'[q] = cmd[q], ResumeOK(q)
  PROVE  ResumeOK(q)'
<1>1. cmd[q].about \in Messages
  BY JobType DEF Command
<1>2. net[cmd[q].about] = "executed" => net'[cmd[q].about] = "executed"
  BY <1>1, NetStep
<1>3. \A m \in Commands : At(m, "done") => cmd'[m] = cmd[m] /\ At(m, "done")'
  BY DoneStays
<1> QED
  BY <1>2, <1>3 DEF ResumeOK

\* A command that is not done with a resumed outcome holds the rest by its purpose.
LEMMA ResumeMover ==
  ASSUME TypeOK, JobInv, ResolvedTruth, RowTruth, ResumeInv, NEW p \in Commands,
         \/ Begin(p) \/ Resume(p) \/ Read(p)
         \/ Open(p) \/ Delete(p) \/ Stamp(p) \/ OpenFails(p)
         \/ Send(p) \/ Answered(p) \/ SendFails(p)
         \/ Insert(p) \/ Mark(p) \/ JournalFails(p) \/ Die(p)
  PROVE  ResumeOK(p)'
<1> DEFINE Journals(c) == c.step \in {"insert", "mark"} => c.purpose \in {"insert", "mark"}
           Quiet(c) == c.step = "done" => \/ c.purpose \notin {"resume", "read"}
                                          \/ c.result \notin Outcomes
<1>1. cmd[p] \in Command /\ cmd \in [Commands -> Command]
  BY JobType DEF TypeOK
<1>2. ResumeOK(p)
  BY DEF ResumeInv
<1>3. ASSUME Journals(cmd'[p]), Quiet(cmd'[p]) PROVE ResumeOK(p)'
  BY <1>3 DEF ResumeOK
<1>4. CASE Begin(p)
  <2>1. cmd'[p] = [cmd[p] EXCEPT !.step = "open", !.purpose = "send"]
    BY <1>1, <1>4 DEF Begin, Become
  <2> QED
    BY <1>1, <1>3, <2>1 DEF Command
<1>5. CASE Resume(p)
  <2>1. PICK m \in Messages : Become(p, [cmd[p] EXCEPT !.step = "open", !.purpose = "resume",
                                                        !.about = m])
    BY <1>5 DEF Resume
  <2>2. cmd'[p] = [cmd[p] EXCEPT !.step = "open", !.purpose = "resume", !.about = m]
    BY <1>1, <2>1 DEF Become
  <2> QED
    BY <1>1, <1>3, <2>2 DEF Command
<1>6. CASE Opened(p)
  <2>1. cmd'[p].step \in {"read", cmd[p].purpose} /\ cmd'[p].purpose = cmd[p].purpose
    BY <1>1, <1>6 DEF Opened, Become, Command
  <2> QED
    BY <1>1, <1>3, <2>1 DEF Command, Purposes
<1>7. CASE Open(p) \/ Delete(p) \/ Send(p) \/ Die(p)
  <2>1. Opened(p) \/ cmd'[p].step \in {"delete", "stamp", "wait", "dead"}
    BY <1>1, <1>7 DEF Open, Delete, Send, Die, Become, Command
  <2> QED
    BY <1>3, <1>6, <2>1
<1>8. CASE Stamp(p)
  BY <1>6, <1>8 DEF Stamp
<1>9. CASE OpenFails(p)
  <2>1. CASE cmd[p].purpose = "send"
    <3>1. cmd'[p] = [cmd[p] EXCEPT !.step = "send"]
      BY <1>1, <1>9, <2>1 DEF OpenFails, NotOpened, Become
    <3> QED
      BY <1>1, <1>3, <3>1 DEF Command
  <2>2. CASE cmd[p].purpose \in {"resume", "insert"}
    <3>1. cmd'[p].step = "open"
      <4>1. CASE cmd[p].purpose = "resume"
        BY <1>1, <1>9, <4>1 DEF OpenFails, NotOpened, Become, Command
      <4>2. CASE cmd[p].purpose = "insert"
        BY <1>1, <1>9, <4>2 DEF OpenFails, NotOpened, Become, Command
      <4> QED
        BY <2>2, <4>1, <4>2
    <3> QED
      BY <1>3, <3>1
  <2>3. CASE cmd[p].purpose = "read"
    <3>1. cmd'[p] = [cmd[p] EXCEPT !.step = "done", !.result = "RESUME_NOT_FOUND"]
      BY <1>1, <1>9, <2>3 DEF OpenFails, NotOpened, Finish, Become
    <3> QED
      BY <1>1, <1>3, <3>1 DEF Command, Outcomes
  <2>4. CASE cmd[p].purpose = "mark"
    <3>1. cmd'[p] = [cmd[p] EXCEPT !.step = "done", !.result = cmd[p].result]
      BY <1>1, <1>9, <2>4 DEF OpenFails, NotOpened, Finish, Become
    <3> QED
      BY <1>1, <1>3, <2>4, <3>1 DEF Command
  <2> QED
    BY <1>1, <2>1, <2>2, <2>3, <2>4 DEF Command, Purposes
<1>10. CASE Answered(p)
  <2>1. PICK r \in Outcomes : ToJournal(p, r)
    BY <1>10 DEF Answered, Outcomes
  <2>2. cmd'[p].purpose = "insert"
    BY <1>1, <2>1 DEF ToJournal, Become, Command
  <2> QED
    BY <1>3, <2>2
<1>11. CASE SendFails(p)
  <2>1. cmd'[p] = [cmd[p] EXCEPT !.step = "done", !.result = "ERROR"]
    BY <1>1, <1>11 DEF SendFails, Finish, Become
  <2> QED
    BY <1>1, <1>3, <2>1 DEF Command, Outcomes
<1>12. CASE Insert(p)
  <2>1. cmd'[p].purpose = cmd[p].purpose /\ cmd[p].purpose \in {"insert", "mark"} /\ cmd'[p].step = "mark"
    BY <1>1, <1>2, <1>12 DEF Insert, At, Become, Command, ResumeOK
  <2> QED
    BY <1>3, <2>1
<1>13. CASE Mark(p) \/ JournalFails(p)
  <2>1. cmd[p].purpose \in {"insert", "mark"}
    BY <1>2, <1>13 DEF Mark, JournalFails, At, ResumeOK
  <2>2. cmd'[p] = [cmd[p] EXCEPT !.step = "done", !.result = cmd[p].result]
    BY <1>1, <1>13 DEF Mark, JournalFails, Finish, Become
  <2> QED
    BY <1>1, <1>3, <2>1, <2>2 DEF Command
<1>14. CASE Read(p)
  <2>0. PICK m \in Messages : m = cmd[p].about
    BY <1>1 DEF Command
  <2> DEFINE r == IF m \notin DOMAIN rows THEN "RESUME_NOT_FOUND"
                  ELSE IF rows[m].status = "pending" THEN "RESUME_PENDING_NOT_SUPPORTED"
                  ELSE rows[m].status
  <2>1. cmd'[p] = [cmd[p] EXCEPT !.step = "done", !.result = r] /\ net' = net
    BY <1>1, <1>14, <2>0 DEF Read, Finish, Become
  <2>2. cmd'[p].step = "done" /\ cmd'[p].result = r /\ cmd'[p].about = m
    BY <1>1, <2>0, <2>1 DEF Command
  <2>3. CASE r \notin Outcomes
    BY <1>3, <2>2, <2>3
  <2>4. CASE r \in Outcomes
    <3>1. m \in DOMAIN rows /\ rows[m].status = r
      BY <2>4 DEF Outcomes
    <3>2. r = "resolved" => net'[m] = "executed"
      BY <2>1, <3>1 DEF ResolvedTruth
    <3>3. ASSUME m \in Commands PROVE At(m, "done")' /\ cmd'[m].result = r
      <4>1. At(m, "done") /\ cmd[m].result = r
        BY <2>4, <3>1, <3>3 DEF RowTruth
      <4>2. m # p
        BY <1>14, <4>1 DEF Read, At
      <4>3. cmd'[m] = cmd[m]
        BY <1>14, <3>3, <4>2, OthersStep
      <4> QED
        BY <4>1, <4>3 DEF At
    <3> QED
      BY <2>2, <3>2, <3>3 DEF ResumeOK
  <2> QED
    BY <2>3, <2>4
<1> QED
  BY <1>4, <1>5, <1>7, <1>8, <1>9, <1>10, <1>11, <1>12, <1>13, <1>14

LEMMA ResumeStep ==
  ASSUME TypeOK, JobInv, ResolvedTruth, RowTruth, ResumeInv, [Next]_vars
  PROVE  ResumeInv'
<1> SUFFICES ASSUME NEW q \in Commands PROVE ResumeOK(q)'
  BY DEF ResumeInv
<1>1. CASE cmd'[q] = cmd[q]
  BY <1>1, ResumedKeeps DEF ResumeInv
<1>2. ASSUME NEW p \in Commands,
             \/ Begin(p) \/ Resume(p) \/ Read(p)
             \/ Open(p) \/ Delete(p) \/ Stamp(p) \/ OpenFails(p)
             \/ Send(p) \/ Answered(p) \/ SendFails(p)
             \/ Insert(p) \/ Mark(p) \/ JournalFails(p) \/ Die(p)
      PROVE  ResumeOK(q)'
  BY <1>1, <1>2, ResumeMover, OthersStep
<1> QED
  BY <1>1, <1>2 DEF Next, vars, Tick, Execute

LEMMA InitIInv == Init => IInv
<1> SUFFICES ASSUME Init PROVE IInv
  OBVIOUS
<1>1. now = Start /\ lost = {} /\ stamp \in {{}, {0}}
  BY DEF Init
<1>2. rows \in [Earlier -> [status : {"pending"} \cup Outcomes, at : {0}]]
  BY DEF Init
<1>3. net = [m \in Messages |-> IF m \in Earlier THEN "executed" ELSE "unsent"]
  BY DEF Init
<1>4. cmd = [p \in Commands |->
               [step |-> "idle", purpose |-> "send", opened |-> FALSE, seen |-> 0,
                about |-> p, at |-> 0, result |-> ""]]
  BY DEF Init
<1>5. Start \in Nat /\ MaxTime \in Nat /\ Start <= MaxTime
  BY PromiseAssumption
<1>6. DOMAIN rows = Earlier /\ \A m \in Earlier : rows[m] \in PromiseRow
  BY <1>2 DEF PromiseRow
<1>7. TypeOK
  <2>1. now \in Start..MaxTime
    BY <1>1, <1>5
  <2>2. DOMAIN rows \subseteq Messages /\ rows \in [DOMAIN rows -> PromiseRow]
    <3>1. rows \in [Earlier -> PromiseRow]
      BY <1>2 DEF PromiseRow
    <3> QED
      BY <1>6, <3>1 DEF Messages
  <2>3. stamp \in SUBSET Nat /\ \A s, t \in stamp : s = t
    BY <1>1
  <2>4. cmd \in [Commands -> Command]
    BY <1>4 DEF Command, Steps, Purposes, Results, Messages
  <2> QED
    BY <1>1, <1>3, <2>1, <2>2, <2>3, <2>4 DEF TypeOK
<1>8. JobInv
  <2>1. \A p \in Commands : net[p] = "unsent"
    BY <1>3, PromiseAssumption DEF Messages
  <2>2. \A p \in Commands : cmd[p].step = "idle" /\ cmd[p].seen = 0 /\ cmd[p].at = 0
    BY <1>4
  <2>3. now \in Nat
    BY <1>1, <1>5
  <2>4. ASSUME NEW p \in Commands PROVE JobOK(p)
    <3>1. cmd[p].seen <= now /\ cmd[p].at <= now
      BY <2>2, <2>3
    <3>2. ~Sent(p) /\ cmd[p].step = "idle"
      BY <2>1, <2>2 DEF Sent
    <3> QED
      BY <3>1, <3>2 DEF JobOK, OpeningFor
  <2> QED
    BY <2>4 DEF JobInv
<1>9. ResolvedTruth /\ RowTruth
  BY <1>3, <1>6, PromiseAssumption DEF ResolvedTruth, RowTruth, Messages
<1>10. ResumeInv
  BY <1>4 DEF ResumeInv, ResumeOK
<1> QED
  BY <1>7, <1>8, <1>9, <1>10 DEF IInv

\* The inductive invariant of the promise store.
THEOREM PromisesInvariant == Spec => []IInv
<1>1. IInv /\ [Next]_vars => IInv'
  BY TypeStep, JobStep, ResolvedStep, RowTruthStep, ResumeStep DEF IInv
<1> QED
  BY <1>1, InitIInv, PTL DEF Spec

\* What a send reported stays in the store until it is old, whatever clean-ups
\* run (maybeRunCleanup, markResolved, markFailed).
THEOREM OutcomesAreKept == Spec => []OutcomeKept
<1>1. IInv => OutcomeKept
  <2> SUFFICES ASSUME IInv, NEW p \in Commands, At(p, "done"), Sent(p),
                      cmd[p].result \in Outcomes, p \notin lost, now - cmd[p].at <= Age
               PROVE  p \in DOMAIN rows /\ rows[p].status = cmd[p].result
    BY DEF OutcomeKept
  <2>1. now \in Nat /\ cmd[p].at \in Nat /\ Age \in Nat
    BY JobType, PromiseAssumption DEF IInv, Command
  <2>2. JobOK(p)
    BY DEF IInv, JobInv
  <2>3. ~(now - cmd[p].at > Age)
    BY <2>1
  <2> QED
    BY <2>2, <2>3 DEF JobOK, At
<1> QED
  BY <1>1, PromisesInvariant, PTL

\* A resolved row is about a message that was executed.
THEOREM ResolvedIsTrue == Spec => []ResolvedTruth
<1>1. IInv => ResolvedTruth
  BY DEF IInv
<1> QED
  BY <1>1, PromisesInvariant, PTL

\* A --resume repeats what the send reported (handleResume, markResolved, markFailed).
THEOREM ResumesAreTrue == Spec => []ResumeTruth
<1>1. IInv => ResumeTruth
  BY DEF IInv, ResumeInv, ResumeOK, ResumeTruth, At
<1> QED
  BY <1>1, PromisesInvariant, PTL

\* Types.
THEOREM PromisesTypeCorrect == Spec => []TypeOK
<1>1. IInv => TypeOK
  BY DEF IInv
<1> QED
  BY <1>1, PromisesInvariant, PTL
=============================================================================
