-------------------------- MODULE InjectedPromises --------------------------
(***************************************************************************)
(* `vara-eth:message send --via injected --wait reply` and `--resume`      *)
(* (src/src/commands/vara-eth-actions.ts) over the SQLite store of         *)
(* injected promises (src/src/services/vara-eth/promises.ts), which        *)
(* several CLI processes share.  Sends by Ethereum or with `--wait         *)
(* submitted` do not touch the store.                                      *)
(*                                                                         *)
(* The hash of an injected message contains a random salt: the message of  *)
(* a command is identified with the command.  The statements of the store  *)
(* are steps of their own; a process may die between any two.              *)
(***************************************************************************)
EXTENDS Integers

CONSTANTS Commands,  \* CLI processes, each sending or resuming once
          Earlier,   \* messages in the store from finished or killed processes
          Age,       \* CLEANUP_AGE_MS
          Interval,  \* CLEANUP_INTERVAL_MS
          Start,     \* the time at which the model starts
          MaxTime    \* bound: the time at which it ends

ASSUME PromiseAssumption == /\ Commands \cap Earlier = {}
                            /\ {Age, Interval, Start, MaxTime} \subseteq Nat
                            /\ Start <= MaxTime

VARIABLES now,     \* the clock of the machine
          rows,    \* injected_promises: a function from hashes to rows
          stamp,   \* promise_metadata.last_cleanup_at; {} when there is none
          net,     \* net[m] : what the validators know of message m
          lost,    \* messages for which a write of the store failed
          cmd      \* cmd[p] : what process p is doing

vars == <<now, rows, stamp, net, lost, cmd>>

Messages == Commands \cup Earlier
Outcomes == {"resolved", "failed"}
PromiseRow == [status : {"pending"} \cup Outcomes, at : Nat]
Steps == {"idle", "open", "delete", "stamp", "send", "wait", "insert", "mark", "read",
          "done", "dead"}

\* What is to be done with the store once it is open.
Purposes == {"send", "insert", "mark", "resume", "read"}
Results == Outcomes \cup {"", "ERROR", "RESUME_NOT_FOUND", "RESUME_PENDING_NOT_SUPPORTED"}

\* seen: the time at which a clean-up began; about: the message to resume;
\* at: the time of the insert.
Command == [step : Steps, purpose : Purposes, opened : BOOLEAN, seen : Nat,
            about : Messages, at : Nat, result : Results]

At(p, step) == cmd[p].step = step
Become(p, c) == cmd' = [cmd EXCEPT ![p] = c]
Finish(p, result) == Become(p, [cmd[p] EXCEPT !.step = "done", !.result = result])
Lose(p) == lost' = lost \cup {p}

\* last_cleanup_at is the primary key of its row: there is at most one stamp.
TypeOK == /\ now \in Start..MaxTime
          /\ DOMAIN rows \subseteq Messages
          /\ rows \in [DOMAIN rows -> PromiseRow]
          /\ stamp \in SUBSET Nat /\ \A s, t \in stamp : s = t
          /\ net \in [Messages -> {"unsent", "inflight", "executed"}]
          /\ lost \subseteq Commands
          /\ cmd \in [Commands -> Command]
-----------------------------------------------------------------------------
(* The table                                                               *)

WithPending(m) == [x \in DOMAIN rows \cup {m} |->
                     IF x = m THEN [status |-> "pending", at |-> now] ELSE rows[x]]

\* Mutation: whatever the outcome, the row is resolved.
MarkedResolved(m, outcome) ==
  [x \in DOMAIN rows |-> IF x = m /\ rows[x].status = "pending"
                           THEN [rows[x] EXCEPT !.status = "resolved"] ELSE rows[x]]

\* markResolved, markFailed: UPDATE ... WHERE tx_hash = ? AND status = 'pending'
Marked(m, outcome) ==
  [x \in DOMAIN rows |-> IF x = m /\ rows[x].status = "pending"
                           THEN [rows[x] EXCEPT !.status = outcome] ELSE rows[x]]

\* Mutation: the age is not subtracted from the time of the clean-up.
RemovableAtOnce(time) == {m \in DOMAIN rows : rows[m].status # "pending" /\ rows[m].at < time}

\* The rows a clean-up begun at `time` deletes.
Removable(time) == {m \in DOMAIN rows : rows[m].status # "pending" /\ rows[m].at < time - Age}

\* last_cleanup_at counts as 0 when it is missing.
CleanupDue == \A s \in stamp : now - s >= Interval
-----------------------------------------------------------------------------
(* initPromiseStore: opening, and the clean-up it includes                 *)

\* Where a process goes with the store open.  Inserting and marking are parts of
\* one synchronous stretch; resuming reads.
Opened(p) == LET next == cmd[p].purpose IN
  Become(p, [cmd[p] EXCEPT !.opened = TRUE,
                           !.step = IF next = "resume" THEN "read" ELSE next])

\* An unusable store stops nobody: an operation that finds it closed opens it
\* once more, and failing that does nothing.
NotOpened(p) ==
  LET next == cmd[p].purpose IN
  /\ CASE next = "send" -> Become(p, [cmd[p] EXCEPT !.step = "send"])
       [] next = "resume" -> Become(p, [cmd[p] EXCEPT !.step = "open", !.purpose = "read"])
       [] next = "read" -> Finish(p, "RESUME_NOT_FOUND")
       [] next = "insert" -> Become(p, [cmd[p] EXCEPT !.step = "open", !.purpose = "mark"])
       [] next = "mark" -> Finish(p, cmd[p].result)
  /\ IF next = "insert" THEN Lose(p) ELSE UNCHANGED lost

\* The database is opened and the stamp of the last clean-up is read.
Open(p) == /\ At(p, "open")
           /\ IF CleanupDue THEN Become(p, [cmd[p] EXCEPT !.step = "delete", !.seen = now])
                            ELSE Opened(p)
           /\ UNCHANGED <<now, rows, stamp, net, lost>>

Delete(p) == /\ At(p, "delete")
             /\ rows' = [m \in DOMAIN rows \ Removable(cmd[p].seen) |-> rows[m]]
             /\ Become(p, [cmd[p] EXCEPT !.step = "stamp"])
             /\ UNCHANGED <<now, stamp, net, lost>>

\* Mutation: the stamp is inserted, the old one stays.
StampAdded(p) == /\ At(p, "stamp")
                 /\ stamp' = stamp \cup {cmd[p].seen}
                 /\ Opened(p)
                 /\ UNCHANGED <<now, rows, net, lost>>

Stamp(p) == /\ At(p, "stamp")
            /\ stamp' = {cmd[p].seen}
            /\ Opened(p)
            /\ UNCHANGED <<now, rows, net, lost>>

\* Whichever statement throws, the store counts as not opened.
OpenFails(p) == /\ cmd[p].step \in {"open", "delete", "stamp"}
                /\ NotOpened(p)
                /\ UNCHANGED <<now, rows, stamp, net>>
-----------------------------------------------------------------------------
(* message send --via injected --wait reply                                *)

Begin(p) == /\ At(p, "idle")
            /\ Become(p, [cmd[p] EXCEPT !.step = "open", !.purpose = "send"])
            /\ UNCHANGED <<now, rows, stamp, net, lost>>


\* sendAndWait: the message leaves, and its outcome is awaited.
Send(p) == /\ At(p, "send")
           /\ net' = [net EXCEPT ![p] = "inflight"]
           /\ Become(p, [cmd[p] EXCEPT !.step = "wait"])
           /\ UNCHANGED <<now, rows, stamp, lost>>

\* To the two statements, on a store that was opened or is tried again.
ToJournal(p, outcome) ==
  Become(p, [cmd[p] EXCEPT !.step = IF cmd[p].opened THEN "insert" ELSE "open",
                           !.purpose = "insert", !.result = outcome])

\* A reply, or an error that names the message: a time-out, a bad signature.
Answered(p) == /\ At(p, "wait")
               /\ \/ net[p] = "executed" /\ ToJournal(p, "resolved")
                  \/ ToJournal(p, "failed")
               /\ UNCHANGED <<now, rows, stamp, net, lost>>

\* The directory of the store cannot be made; the signer, the connection or the
\* send itself fails; or awaiting the reply fails with an error that does not
\* name the message.
SendFails(p) == /\ \/ cmd[p].step \in {"send", "wait"}
                   \/ At(p, "open") /\ cmd[p].purpose \in {"send", "resume", "read"}
                /\ Finish(p, "ERROR")
                /\ UNCHANGED <<now, rows, stamp, net, lost>>

Insert(p) == /\ At(p, "insert")
             /\ rows' = WithPending(p)
             /\ Become(p, [cmd[p] EXCEPT !.step = "mark", !.at = now])
             /\ UNCHANGED <<now, stamp, net, lost>>

Mark(p) == /\ At(p, "mark")
           /\ rows' = Marked(p, cmd[p].result)
           /\ Finish(p, cmd[p].result)
           /\ UNCHANGED <<now, stamp, net, lost>>

\* Either statement throws, or making the directory before it: what is left is
\* given up, the outcome is reported.
JournalFails(p) == /\ \/ cmd[p].step \in {"insert", "mark"}
                      \/ At(p, "open") /\ cmd[p].purpose \in {"insert", "mark"}
                   /\ Lose(p)
                   /\ Finish(p, cmd[p].result)
                   /\ UNCHANGED <<now, rows, stamp, net>>
-----------------------------------------------------------------------------
(* message send --resume <hash>                                            *)

Resume(p) == /\ At(p, "idle")
             /\ \E m \in Messages :
                  Become(p, [cmd[p] EXCEPT !.step = "open", !.purpose = "resume", !.about = m])
             /\ UNCHANGED <<now, rows, stamp, net, lost>>

\* Mutation: what has not failed is resolved.
ReadPendingResolved(p) ==
  /\ At(p, "read")
  /\ LET m == cmd[p].about IN
       Finish(p, IF m \notin DOMAIN rows THEN "RESUME_NOT_FOUND"
                 ELSE IF rows[m].status = "failed" THEN "failed" ELSE "resolved")
  /\ UNCHANGED <<now, rows, stamp, net, lost>>

Read(p) == /\ At(p, "read")
           /\ LET m == cmd[p].about IN
                Finish(p, IF m \notin DOMAIN rows THEN "RESUME_NOT_FOUND"
                          ELSE IF rows[m].status = "pending" THEN "RESUME_PENDING_NOT_SUPPORTED"
                          ELSE rows[m].status)
           /\ UNCHANGED <<now, rows, stamp, net, lost>>
-----------------------------------------------------------------------------
(* Around the commands                                                     *)

\* The process is killed, at any point of its command.
Die(p) == /\ cmd[p].step \notin {"idle", "done", "dead"}
          /\ Become(p, [cmd[p] EXCEPT !.step = "dead"])
          /\ UNCHANGED <<now, rows, stamp, net, lost>>

Tick == now < MaxTime /\ now' = now + 1 /\ UNCHANGED <<rows, stamp, net, lost, cmd>>

Execute == \E m \in Messages : /\ net[m] = "inflight"
                               /\ net' = [net EXCEPT ![m] = "executed"]
                               /\ UNCHANGED <<now, rows, stamp, lost, cmd>>

\* Earlier messages were executed; a row of theirs is pending if its process was
\* killed between the two statements.
Init == /\ now = Start
        /\ rows \in [Earlier -> [status : {"pending"} \cup Outcomes, at : {0}]]
        /\ stamp \in {{}, {0}}
        /\ net = [m \in Messages |-> IF m \in Earlier THEN "executed" ELSE "unsent"]
        /\ lost = {}
        /\ cmd = [p \in Commands |->
                    [step |-> "idle", purpose |-> "send", opened |-> FALSE, seen |-> 0,
                     about |-> p, at |-> 0, result |-> ""]]

Next == \/ Tick \/ Execute
        \/ \E p \in Commands : \/ Begin(p) \/ Resume(p) \/ Read(p)
                               \/ Open(p) \/ Delete(p) \/ Stamp(p) \/ OpenFails(p)
                               \/ Send(p) \/ Answered(p) \/ SendFails(p)
                               \/ Insert(p) \/ Mark(p) \/ JournalFails(p) \/ Die(p)

Spec == Init /\ [][Next]_vars
-----------------------------------------------------------------------------
(* Correctness                                                             *)

Sent(p) == net[p] # "unsent"

\* What a send reported is what a later --resume, of any process, finds until
\* the row is older than CLEANUP_AGE_MS: unless its own writes failed, no
\* clean-up takes it away, however long the clean-up was suspended between
\* reading the clock and deleting.
OutcomeKept ==
  \A p \in Commands :
    (/\ At(p, "done") /\ Sent(p) /\ cmd[p].result \in Outcomes
     /\ p \notin lost /\ now - cmd[p].at <= Age)
    => p \in DOMAIN rows /\ rows[p].status = cmd[p].result

\* A resolved row is about a message that was executed.
ResolvedTruth == \A m \in DOMAIN rows : rows[m].status = "resolved" => net[m] = "executed"

\* What a --resume reports as an outcome is what the sending process reported,
\* whenever a process died, whichever of its writes failed and whichever
\* clean-ups ran; and a reply it reports is the reply of an executed message.
ResumeTruth ==
  \A p \in Commands :
    (At(p, "done") /\ cmd[p].purpose \in {"resume", "read"} /\ cmd[p].result \in Outcomes) =>
      LET m == cmd[p].about IN
      /\ cmd[p].result = "resolved" => net[m] = "executed"
      /\ m \in Commands => At(m, "done") /\ cmd[m].result = cmd[p].result

\* promises.ts:260 "Runs at most once per `CLEANUP_INTERVAL_MS`": whoever is
\* about to delete finds the last clean-up that long ago.
CleanupOncePerInterval == \A p \in Commands : At(p, "delete") => CleanupDue
=============================================================================
