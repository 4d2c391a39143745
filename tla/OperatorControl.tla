-------------------------- MODULE OperatorControl ---------------------------
(***************************************************************************)
(* The operator's control plane: the Telegram command loop                 *)
(* (src/src/services/telegram-commands.ts, telegram-bot.ts) and the pause  *)
(* switch it sets (src/src/services/operator-pause.ts), across crashes and *)
(* restarts of the process.                                                *)
(*                                                                         *)
(* Telegram keeps every update until a getUpdates call names a higher      *)
(* offset; the loop's offset lives in memory only and starts at 0 in every *)
(* process.  The switch lives in memory and in a JSON file that writeFile  *)
(* truncates before it writes.                                             *)
(***************************************************************************)
EXTENDS Naturals, FiniteSets, FiniteSetsExt

CONSTANTS
    MaxUpdates,     \* bound: updates the chat sends in a behaviour
    MaxCrashes,     \* bound: crashes and redeploys
    BatchLimit      \* updates one getUpdates call returns at most

ASSUME ControlAssumption ==
    /\ MaxUpdates \in Nat /\ MaxCrashes \in Nat /\ BatchLimit \in Nat \ {0}

VARIABLES
    sent,           \* number of updates sent so far; their ids are 1..sent
    command,        \* what each update says
    pending,        \* ids Telegram still holds
    phase,          \* where the process is
    offset,         \* TelegramCommandLoop.offset
    batch,          \* ids of the getUpdates answer not handled yet
    paused,         \* OperatorPauseStore.paused
    file,           \* the switch file
    crashes,
    handled,        \* history: how often each update reached the dispatcher
    backlog,        \* history: updates that were sent before this process's drain
    expected,       \* history: switch values the operator can account for
    faults          \* history: what went wrong: an incomplete "drain", a failed
                    \* "write", a file "torn" by a crash

chat == <<sent, command, pending>>
loop == <<phase, offset, batch>>
history == <<handled, backlog, expected, faults>>
vars == <<chat, loop, paused, file, crashes, history>>

Ids == 1..MaxUpdates
Commands == {"pause", "resume", "run", "ignored"}
Phases == {"down", "draining", "polling", "handling", "persisting", "writing",
           "replying"}
Files == {"missing", "torn", "on", "off"}

Init ==
    /\ sent = 0 /\ command = [i \in Ids |-> "ignored"] /\ pending = {}
    /\ phase = "down" /\ offset = 0 /\ batch = {}
    /\ paused = FALSE /\ file = "missing" /\ crashes = 0
    /\ handled = [i \in Ids |-> 0] /\ backlog = 0 /\ expected = {FALSE}
    /\ faults = {}

-----------------------------------------------------------------------------
(* The chat: an allowed command, or a message the loop ignores (no text, no *)
(* command, another chat).                                                  *)
Send(c) ==
    /\ sent < MaxUpdates
    /\ sent' = sent + 1
    /\ command' = [command EXCEPT ![sent + 1] = c]
    /\ pending' = pending \cup {sent + 1}
    /\ UNCHANGED <<loop, paused, file, crashes, history>>

\* getUpdates: ids below the offset are confirmed and dropped, the oldest of
\* the others are returned.
Kept(off) == {i \in pending : i >= off}
Oldest(S) == {i \in S : Cardinality({j \in S : j < i}) < BatchLimit}
Past(S, off) == Max({off} \cup {i + 1 : i \in S})

-----------------------------------------------------------------------------
(* The process.                                                            *)

\* Bug: a restarted process does not look at the file.
HydrateNothing == FALSE

\* hydrate(): a missing file means not paused, and so does an unreadable one.
Hydrated == file = "on"

Boot ==
    /\ phase = "down"
    /\ paused' = Hydrated
    /\ phase' = "draining" /\ offset' = 0 /\ batch' = {}
    /\ UNCHANGED <<chat, file, crashes, history>>

\* Bug: the offset names the newest drained update instead of the next one.
DrainOffByOne ==
    /\ phase = "draining"
    /\ offset' = Max({offset} \cup Oldest(Kept(offset)))
    /\ pending' = Kept(offset)
    /\ phase' = "polling" /\ backlog' = sent
    /\ faults' = IF Kept(offset) = Oldest(Kept(offset)) THEN faults
                 ELSE faults \cup {"drain"}
    /\ UNCHANGED <<sent, command, batch, paused, file, crashes, handled, expected>>

\* drainPendingUpdates: one getUpdates call, whose updates are skipped.
Drain ==
    /\ phase = "draining"
    /\ offset' = Past(Oldest(Kept(offset)), offset)
    /\ pending' = Kept(offset)
    /\ phase' = "polling" /\ backlog' = sent
    /\ faults' = IF Kept(offset) = Oldest(Kept(offset)) THEN faults
                 ELSE faults \cup {"drain"}
    /\ UNCHANGED <<sent, command, batch, paused, file, crashes, handled, expected>>

\* "telegram command drain failed; continuing"
DrainFails ==
    /\ phase = "draining"
    /\ phase' = "polling" /\ backlog' = sent
    /\ faults' = faults \cup {"drain"}
    /\ UNCHANGED <<chat, offset, batch, paused, file, crashes, handled, expected>>

\* The long poll is answered; with an empty answer the loop polls again.  An
\* answer that got lost confirmed the offset all the same.
Poll ==
    /\ phase = "polling"
    /\ pending' = Kept(offset)
    /\ batch' = Oldest(Kept(offset))
    /\ phase' = IF batch' = {} THEN "polling" ELSE "handling"
    /\ UNCHANGED <<sent, command, offset, paused, file, crashes, history>>

PollLost ==
    /\ phase = "polling"
    /\ pending' = Kept(offset)
    /\ UNCHANGED <<sent, command, loop, paused, file, crashes, history>>

\* The loop takes the next update of the answer, or polls again.
AfterUpdate(rest) == IF rest = {} THEN "polling" ELSE "handling"

\* Bug: the offset is moved two ids on.
HandleOffsetTooFar(i) ==
    /\ phase = "handling" /\ i = Min(batch)
    /\ offset' = i + 2 /\ batch' = batch \ {i}
    /\ handled' = [handled EXCEPT ![i] = @ + 1]
    /\ phase' = "replying"
    /\ UNCHANGED <<chat, paused, file, crashes, backlog, expected, faults>>

\* Bug: the offset moves only for updates that carry a command.
HandleSkipsOffset(i) ==
    /\ phase = "handling" /\ i = Min(batch)
    /\ batch' = batch \ {i}
    /\ IF command[i] = "ignored"
       THEN phase' = AfterUpdate(batch') /\ UNCHANGED <<offset, paused, handled, expected>>
       ELSE /\ offset' = Past({i}, offset)
            /\ handled' = [handled EXCEPT ![i] = @ + 1]
            /\ phase' = "replying"
            /\ UNCHANGED <<paused, expected>>
    /\ UNCHANGED <<chat, file, crashes, backlog, faults>>

\* handleUpdate: the offset moves first, then an allowed command is dispatched
\* and awaited.  /run goes on in the background; /pause and /resume set the
\* switch at once and persist it before they reply.
Handle(i) ==
    /\ phase = "handling" /\ i = Min(batch)
    /\ offset' = Past({i}, offset)
    /\ batch' = batch \ {i}
    /\ IF command[i] = "ignored"
       THEN phase' = AfterUpdate(batch') /\ UNCHANGED <<paused, handled, expected>>
       ELSE /\ handled' = [handled EXCEPT ![i] = @ + 1]
            /\ IF command[i] = "run"
               THEN phase' = "replying" /\ UNCHANGED <<paused, expected>>
               ELSE /\ phase' = "persisting"
                    /\ paused' = (command[i] = "pause")
                    /\ expected' = expected \cup {paused'}
    /\ UNCHANGED <<chat, file, crashes, backlog, faults>>

\* persist(): writeFile opens the file with truncation, then writes it.
OpenFile ==
    /\ phase = "persisting"
    /\ file' = "torn" /\ phase' = "writing"
    /\ UNCHANGED <<chat, offset, batch, paused, crashes, history>>

WriteFile ==
    /\ phase = "writing"
    /\ file' = IF paused THEN "on" ELSE "off"
    /\ phase' = "replying"
    /\ UNCHANGED <<chat, offset, batch, paused, crashes, history>>

\* Every storage error is logged and swallowed.
PersistFails ==
    /\ phase \in {"persisting", "writing"}
    /\ phase' = "replying" /\ faults' = faults \cup {"write"}
    /\ UNCHANGED <<chat, offset, batch, paused, file, crashes, handled, backlog,
                   expected>>

\* The handler's answer reaches the chat, or sendText fails and the loop goes
\* on.  Only an answer tells the operator what the switch is.
Reply(delivered) ==
    /\ phase = "replying"
    /\ phase' = AfterUpdate(batch)
    /\ expected' = IF delivered THEN {paused} ELSE expected
    /\ UNCHANGED <<chat, offset, batch, paused, file, crashes, handled,
                   backlog, faults>>

Crash ==
    /\ phase # "down" /\ crashes < MaxCrashes
    /\ crashes' = crashes + 1
    /\ phase' = "down" /\ offset' = 0 /\ batch' = {} /\ paused' = FALSE
    /\ faults' = IF phase = "writing" THEN faults \cup {"torn"} ELSE faults
    /\ UNCHANGED <<chat, file, handled, backlog, expected>>

Process ==
    \/ Boot \/ Drain \/ DrainFails \/ Poll \/ PollLost
    \/ \E i \in batch : Handle(i)
    \/ OpenFile \/ WriteFile \/ PersistFails
    \/ \E d \in BOOLEAN : Reply(d)

Next == Process \/ Crash \/ \E c \in Commands : Send(c)

\* The container is restarted, storage and Telegram answer, and a poll that
\* keeps failing is retried until one succeeds.
Fairness ==
    /\ WF_vars(Boot) /\ WF_vars(Drain) /\ WF_vars(Poll)
    /\ WF_vars(\E i \in batch : Handle(i))
    /\ WF_vars(OpenFile) /\ WF_vars(WriteFile)
    /\ WF_vars(\E d \in BOOLEAN : Reply(d))

SafeSpec == Init /\ [][Next]_vars
Spec == SafeSpec /\ Fairness

-----------------------------------------------------------------------------
(* Properties.                                                             *)

TypeOK ==
    /\ sent \in 0..MaxUpdates /\ command \in [Ids -> Commands]
    /\ pending \subseteq Ids /\ batch \subseteq Ids
    /\ phase \in Phases /\ offset \in 0..(MaxUpdates + 1)
    /\ paused \in BOOLEAN /\ file \in Files /\ crashes \in 0..MaxCrashes
    /\ handled \in [Ids -> Nat] /\ backlog \in 0..MaxUpdates
    /\ expected \subseteq BOOLEAN /\ faults \subseteq {"drain", "write", "torn"}

\* As long as every boot drained its whole backlog, no update is dispatched
\* twice, not even one whose handler a crash cut off before Telegram learned of
\* the new offset: no second /run or /deposit.
AtMostOnce == "drain" \notin faults => \A i \in Ids : handled[i] <= 1

\* telegram-commands.ts:513: a redeploy does not replay stale commands, so an
\* update dispatched by a process was sent after that process drained.
NoStaleReplay ==
    [][\A i \in Ids : handled'[i] # handled[i] => i > backlog]_vars

\* The same for the processes of a bot whose drains were complete.
NoReplayAfterDrain ==
    [][\A i \in Ids : handled'[i] # handled[i] /\ "drain" \notin faults => i > backlog]_vars

\* Apart from the backlog of a restart no command is lost: Telegram is told to
\* drop an update only when it was dispatched, or carries no command.
NoCommandSkipped ==
    [][\A i \in pending \ pending' :
           handled[i] > 0 \/ command[i] = "ignored" \/ i <= backlog]_vars

\* operator-pause.ts:27: a restart does not silently change the switch; a live
\* process has the value of the last acknowledged /pause or /resume, or of one
\* that was sent later and is not acknowledged yet.  Only a failed write or a
\* crash inside one can break this.
SwitchIsAccountedFor ==
    faults \cap {"write", "torn"} = {} /\ phase # "down" => paused \in expected

\* Every update is consumed in the end: handled, skipped or ignored, and
\* confirmed to Telegram, so no update is served again and again.
EveryUpdateConsumed == \A i \in Ids : i \in pending ~> i \notin pending
=============================================================================
