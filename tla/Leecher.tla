------------------------------ MODULE Leecher -------------------------------
(***************************************************************************)
(* gossip/basestream/basestreamleecher: the download of a range from one   *)
(* seeder.  BaseLeecher starts and terminates sessions; in each of them a  *)
(* BasePeerLeecher keeps a number of chunks requested.  The callbacks are  *)
(* the application's: here it takes the seeder for a candidate while it is *)
(* registered, and is done once it has the chunk that says so.             *)
(***************************************************************************)
EXTENDS Integers, Sequences

CONSTANTS ParallelChunksDownload, MaxSessions       \* the second is a bound

VARIABLES
    registered,     \* the seeder is among Peers
    terminated,
    current,        \* the ongoing session, 0 if there is none
    started,        \* the number of sessions started
    agents,         \* the BasePeerLeecher of each session
    got             \* the items that each session has received

leecherVars == <<registered, terminated, current, started, agents, got>>

SessionIDs == 1..MaxSessions
NoAgent == [state |-> "none", requested |-> 0, processed |-> 0, processing |-> 0,
            notified |-> 0, arrived |-> 0, last |-> FALSE]

LeecherInit ==
    /\ registered = FALSE /\ terminated = FALSE
    /\ current = 0 /\ started = 0
    /\ agents = [s \in SessionIDs |-> NoAgent]
    /\ got = [s \in SessionIDs |-> <<>>]
-----------------------------------------------------------------------------
(***************************************************************************)
(* BaseLeecher                                                             *)
(***************************************************************************)
TerminateAgent(as, s) == IF s = 0 THEN as ELSE [as EXCEPT ![s].state = "terminated"]

\* Routine, with the agents as and the session now; the application may end the session.
Routine(as, now) == \E over \in {o \in BOOLEAN : o => now # 0} :
    LET left == IF over THEN 0 ELSE now
        ended == IF over THEN TerminateAgent(as, now) ELSE as
        start == left = 0 /\ registered /\ started < MaxSessions
    IN  /\ current' = IF start THEN started + 1 ELSE left
        /\ started' = IF start THEN started + 1 ELSE started
        /\ agents' = IF start THEN [ended EXCEPT ![started + 1].state = "running"] ELSE ended

RegisterPeer ==
    /\ ~terminated /\ ~registered /\ started < MaxSessions
    /\ registered' = TRUE
    /\ UNCHANGED <<terminated, current, started, agents, got>>

\* A tick of BaseLeecher's loop.
Recheck ==
    /\ ~terminated
    /\ Routine(agents, current)
    /\ UNCHANGED <<registered, terminated, got>>

\* The peer is taken off Peers only after Routine.
UnregisterSeeder ==
    /\ registered
    /\ registered' = FALSE
    /\ IF current = 0 \/ terminated THEN UNCHANGED <<current, started, agents>>
       ELSE Routine(TerminateAgent(agents, current), 0)
    /\ UNCHANGED <<terminated, got>>

Terminate ==
    /\ ~terminated
    /\ terminated' = TRUE
    /\ current' = 0 /\ agents' = TerminateAgent(agents, current)
    /\ UNCHANGED <<registered, started, got>>
-----------------------------------------------------------------------------
(***************************************************************************)
(* BasePeerLeecher.  A terminated loop may still take a chunk or a tick    *)
(* before it sees quit.                                                    *)
(***************************************************************************)
Looping(s) == agents[s].state \in {"running", "terminated"}

\* Mutant: a chunk that is swept is not counted.
SweptUncounted(a, n) == [a EXCEPT !.processing = @ - n]

\* sweepProcessedChunks, with n chunks processed.
SweepProcessedChunks(a, n) == [a EXCEPT !.processed = @ + n, !.processing = @ - n]

\* routine(): agent s goes on from a.  The application has processed any number of
\* chunks, and may suspend the requests.
AgentRoutine(s, a) ==
    IF a.last THEN agents' = [agents EXCEPT ![s] = [a EXCEPT !.state = "terminated"]]
    ELSE \E n \in 0..a.processing, suspend \in BOOLEAN :
           LET swept == SweepProcessedChunks(a, n)
               wanted == swept.processed + ParallelChunksDownload
           IN  agents' = [agents EXCEPT ![s] =
                           IF suspend \/ swept.requested >= wanted THEN swept
                           ELSE [swept EXCEPT !.requested = wanted]]

AgentChunk(s) ==
    LET a == [agents[s] EXCEPT !.notified = @ - 1]
    IN  /\ Looping(s) /\ agents[s].notified > 0
        /\ IF a.state = "terminated" \/ a.processing >= 2 * ParallelChunksDownload
           THEN agents' = [agents EXCEPT ![s] = a]
           ELSE AgentRoutine(s, [a EXCEPT !.processing = @ + 1])
        /\ UNCHANGED <<registered, terminated, current, started, got>>

AgentTick(s) ==
    /\ Looping(s)
    /\ AgentRoutine(s, agents[s])
    /\ UNCHANGED <<registered, terminated, current, started, got>>

AgentQuit(s) ==
    /\ agents[s].state = "terminated"
    /\ agents' = [agents EXCEPT ![s] = [NoAgent EXCEPT !.state = "gone"]]
    /\ got' = [got EXCEPT ![s] = <<>>]
    /\ UNCHANGED <<registered, terminated, current, started>>

\* The application gets a chunk of its session, and NotifyChunkReceived tells the agent.
NotifyChunkReceived(s, chunk) ==
    /\ IF s # current \/ agents[s].state # "running" THEN UNCHANGED <<agents, got>>
       ELSE /\ agents[s].notified < 2 * ParallelChunksDownload
            /\ got' = [got EXCEPT ![s] = @ \o chunk.items]
            /\ agents' = [agents EXCEPT ![s].arrived = @ + 1, ![s].last = @ \/ chunk.done,
                                        ![s].notified = @ + 1]
    /\ UNCHANGED <<registered, terminated, current, started>>
=============================================================================
