---------------------------- MODULE ResetReplay ----------------------------
(***************************************************************************)
(* A hard reset of the daemon: the command task of                         *)
(* interfaces/command_consumer.rs wipes both stores                        *)
(* (application/reset_service.rs), seeds and embeds the concept tree's     *)
(* spine, and rewinds the feeder, which runs on meanwhile.                 *)
(*                                                                         *)
(* Composes DocumentFeeder with the command task, on the one thread they   *)
(* share.  Only hard resets are sent; the other commands, and the start    *)
(* and the rebalances of the command group, are in CommandConsumer.        *)
(***************************************************************************)
EXTENDS DocumentFeeder

CONSTANTS
    ResetFailures,  \* where the reset may return an error
    MaxResets       \* bound: hard resets sent

VARIABLES
    sent,           \* hard resets in the commands topic
    cmdCommitted,   \* the command group's committed offset
    cmdPending,     \* its asynchronous commit in flight, or -1
    cmdPosition,    \* its fetch position
    cpc,            \* where the command task is
    spine,          \* the concepts: not there, without vectors, or embedded
    wiped,          \* history: a store was wiped since the last full rewind
    unreplayed      \* history: a reset that wiped was given up on before one

commands  == <<sent, cmdCommitted, cmdPending, cmdPosition>>
history   == <<wiped, unreplayed>>
resetVars == <<commands, cpc, spine, history>>
allVars   == <<vars, resetVars>>

ASSUME ResetConstants ==
    /\ ResetFailures \subseteq {"wipe", "wipe ltm", "seed", "embed"}
    /\ MaxResets \in Nat

ResetTypeOK ==
    /\ sent \in 0..MaxResets
    /\ cmdCommitted \in 0..sent /\ cmdPending \in -1..sent
    /\ cmdPosition \in 0..sent
    /\ cpc \in {"idle", "wipe", "wipe ltm", "seed", "embed", "rewind", "settle"}
    /\ spine \in {"none", "bare", "embedded"}
    /\ wiped \in BOOLEAN /\ unreplayed \in BOOLEAN

ResetInit ==
    /\ Init
    /\ sent = 0 /\ cmdCommitted = 0 /\ cmdPending = -1 /\ cmdPosition = 0
    /\ cpc = "idle"
    /\ spine = "none"
    /\ wiped = FALSE /\ unreplayed = FALSE

-----------------------------------------------------------------------------
(***************************************************************************)
(* The command task.  It shares a thread with the feeder: it moves while   *)
(* the feeder is at an await, and the feeder moves while it is at one.     *)
(***************************************************************************)
CommandTurn == pc \in AwaitPoints
FeederTurn  == cpc \in {"idle", "embed"}

SendReset ==
    /\ sent < MaxResets
    /\ sent' = sent + 1
    /\ UNCHANGED <<vars, cmdCommitted, cmdPending, cmdPosition, cpc, spine,
                   history>>

CmdResolved == {cmdCommitted} \cup (IF cmdPending = -1 THEN {} ELSE {cmdPending})

CommandBrokerAnswers ==
    /\ cmdPending # -1
    /\ cmdCommitted' \in CmdResolved /\ cmdPending' = -1
    /\ UNCHANGED <<vars, sent, cmdPosition, cpc, spine, history>>

Fetch ==
    /\ cpc = "idle" /\ CommandTurn /\ ~stop /\ cmdPosition < sent
    /\ cmdPosition' = cmdPosition + 1
    /\ cpc' = "wipe"
    /\ UNCHANGED <<vars, sent, cmdCommitted, spine, history>>

\* Mutant: the command is committed before it is processed.
TakeResetCommitting == Fetch /\ cmdPending' = cmdPosition + 1

TakeReset == Fetch /\ UNCHANGED cmdPending

WipeStm ==
    /\ cpc = "wipe"
    /\ fact' = [d \in Docs |-> None]
    /\ wiped' = TRUE
    /\ cpc' = "wipe ltm"
    /\ UNCHANGED <<topic, broker, aside, client, stop, task, leaves, body, fate,
                   budgets, commands, spine, unreplayed>>

WipeLtm ==
    /\ cpc = "wipe ltm"
    /\ leaves' = [d \in Docs |-> <<>>] /\ body' = [d \in Docs |-> None]
    /\ spine' = "none"
    /\ cpc' = "seed"
    /\ UNCHANGED <<topic, broker, aside, client, stop, task, fact, fate, budgets,
                   commands, history>>

SeedSpine ==
    /\ cpc = "seed"
    /\ spine' = "bare"
    /\ cpc' = "embed"
    /\ UNCHANGED <<vars, commands, history>>

\* "reset refused": the rest of the reset, and the rewind, are left out.
ResetFails ==
    /\ cpc \in ResetFailures \ {"embed"}
    /\ unreplayed' = wiped
    /\ cpc' = "settle"
    /\ UNCHANGED <<vars, commands, spine, wiped>>

\* The embedding model is awaited; a failure is only a warning.
EmbedSpine ==
    /\ cpc = "embed" /\ CommandTurn
    /\ \/ spine' = "embedded"
       \/ "embed" \in ResetFailures /\ UNCHANGED spine
    /\ cpc' = "rewind"
    /\ UNCHANGED <<vars, commands, history>>

RewindFeeder ==
    /\ cpc = "rewind"
    /\ \E outcome \in RewindOutcomes :
          /\ Rewind(outcome)
          /\ wiped' = ~(assigned /\ outcome = "done")
          /\ unreplayed' = wiped'
    /\ cpc' = "settle"
    /\ UNCHANGED <<commands, spine>>

\* Whatever became of it, the command is committed.
SettleReset ==
    /\ cpc = "settle"
    /\ cmdPending' = cmdPosition
    /\ cpc' = "idle"
    /\ UNCHANGED <<vars, sent, cmdCommitted, cmdPosition, spine, history>>

-----------------------------------------------------------------------------
(***************************************************************************)
(* The feeder and the process, with what the reset adds to them.           *)
(***************************************************************************)
\* A leaf is placed by meaning among concepts that have vectors, or in the
\* inbox: it needs at least a bare spine.
FeederMoves ==
    /\ FeederTurn /\ FeederTask
    /\ pc = "place" /\ leaves' # leaves => spine # "none"
    /\ UNCHANGED <<commands, cpc, spine, history>>

EnvironmentMoves == Environment /\ UNCHANGED resetVars

\* The daemon seeds what is missing of the spine, embeds it (a failure is a
\* warning), and has the gardener file the inbox's documents (likewise).
StartDaemon ==
    /\ Start
    /\ \/ spine' = "embedded"
       \/ /\ "embed" \in ResetFailures
          /\ spine' = IF spine = "none" THEN "bare" ELSE spine
    /\ UNCHANGED <<commands, cpc, history>>

ForgetCommandTask ==
    /\ cpc' = "idle" /\ cmdPending' = -1 /\ cmdPosition' = cmdCommitted'
    /\ UNCHANGED <<sent, spine, history>>

CrashDaemon == Crash /\ cmdCommitted' \in CmdResolved /\ ForgetCommandTask

ShutDaemon == Shutdown /\ UNCHANGED resetVars

\* The command loop has stopped as well, after a synchronous commit.
ExitDaemon ==
    /\ cpc = "idle" /\ Exit
    /\ cmdCommitted' \in CmdResolved \cup {cmdPosition}
    /\ ForgetCommandTask

CommandTask == TakeReset \/ WipeStm \/ WipeLtm \/ SeedSpine \/ ResetFails
                 \/ EmbedSpine \/ RewindFeeder \/ SettleReset

ResetNext == CommandTask \/ SendReset \/ CommandBrokerAnswers \/ FeederMoves
               \/ EnvironmentMoves \/ StartDaemon \/ CrashDaemon \/ ShutDaemon
               \/ ExitDaemon

ResetSpec == ResetInit /\ [][ResetNext]_allVars

-----------------------------------------------------------------------------
\* Every reset sent has been processed.
ResetsProcessed == cpc = "idle" /\ cmdPosition = sent

\* After a hard reset the stores are derived again from the documents topic:
\* with every reset processed and the feeder caught up, they hold what the
\* topic says, wherever a crash fell and whatever message was in hand, unless
\* a reset was given up on before its rewind (ConsumerRewind, "the rewind is
\* made durable at once").
ReplayRestores == ResetsProcessed /\ ~unreplayed => CaughtUpAgrees

\* The command group never commits past the resets sent, and what a reset wiped is
\* replayed (ConsumerRewind, CommandConsumer::process).
ReplayIsSound == ResetTypeOK /\ ReplayRestores
=============================================================================
