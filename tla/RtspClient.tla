----------------------------- MODULE RtspClient -----------------------------
(***************************************************************************)
(* The RTSP client of testRTSPClient.cpp: main opens one client per URL,   *)
(* then a single-threaded event loop runs the response handlers (DESCRIBE, *)
(* SETUP of each subsession in turn, PLAY) and the handlers of the end of  *)
(* a subsession (source closure, RTCP BYE) and of the stream's timer, in   *)
(* any order.  The program exits when the last client is shut down.        *)
(*                                                                         *)
(* A handler runs for as long as it is registered, whether or not its      *)
(* client still exists: a stale registration is a use after free, which    *)
(* the properties rule out.  The libraries are seen through their calls:   *)
(* a request is answered at most once and later, from the event loop, and  *)
(* closing a client drops its outstanding request.  TEARDOWN has no        *)
(* response handler and changes no state of the program.                   *)
(***************************************************************************)
EXTENDS Integers, FiniteSets

CONSTANTS
  NumStreams,   \* how many URLs are given on the command line
  MaxSubs       \* bound: media subsessions of one session

ASSUME NumStreamsAssumption == NumStreams \in Nat \ {0}
ASSUME MaxSubsAssumption    == MaxSubs \in Nat \ {0}

VARIABLES
  urls,             \* how many URLs main has opened
  client,           \* client[c]: the RTSPClient of URL c
  awaiting,         \* awaiting[c]: its request without a response
  scs,              \* scs[c]: its StreamClientState, and its subsessions
  rtspClientCount,
  exited            \* exit() was called

vars == <<urls, client, awaiting, scs, rtspClientCount, exited>>

Streams == 1..NumStreams
Subs    == 1..MaxSubs

(***************************************************************************)
(* A subsession is "idle" until its SETUP succeeds, "active" while it has  *)
(* a sink and "ended" when its sink was closed.  subsession is the index   *)
(* the iterator returned last; duration abstracts "duration > 0".          *)
(***************************************************************************)
SubState == {"idle", "active", "ended"}

NewScs == [session |-> FALSE, nsubs |-> 0, subsession |-> 0,
           sub |-> [i \in Subs |-> "idle"], bye |-> [i \in Subs |-> FALSE],
           timer |-> FALSE, duration |-> FALSE]

Init ==
  /\ urls = 0
  /\ client = [c \in Streams |-> "none"]
  /\ awaiting = [c \in Streams |-> "none"]
  /\ scs = [c \in Streams |-> NewScs]
  /\ rtspClientCount = 0
  /\ exited = FALSE

\* Mutant: the client is not counted.
OpenURL_NotCounted ==
  /\ urls < NumStreams
  /\ urls' = urls + 1
  /\ client' = [client EXCEPT ![urls + 1] = "open"]
  /\ awaiting' = [awaiting EXCEPT ![urls + 1] = "DESCRIBE"]
  /\ UNCHANGED <<scs, rtspClientCount, exited>>

\* main opens the URLs one by one, before it enters the event loop.
OpenURL ==
  /\ urls < NumStreams
  /\ urls' = urls + 1
  /\ client' = [client EXCEPT ![urls + 1] = "open"]
  /\ rtspClientCount' = rtspClientCount + 1
  /\ awaiting' = [awaiting EXCEPT ![urls + 1] = "DESCRIBE"]
  /\ UNCHANGED <<scs, exited>>

\* createNew returned NULL: the URL is passed over.
OpenURLFailed ==
  /\ urls < NumStreams
  /\ urls' = urls + 1
  /\ UNCHANGED <<client, awaiting, scs, rtspClientCount, exited>>

EventLoop == urls = NumStreams /\ ~exited

\* Mutant: the timer outlives the client.
Reclaim_TimerKept(s) == [NewScs EXCEPT !.timer = s.timer]

\* ~StreamClientState: without a session the timer is not unscheduled.
Reclaim(s) == IF s.session THEN NewScs ELSE [NewScs EXCEPT !.timer = s.timer]

\* Mutant: the program leaves while one stream is open.
NoStreamLeft_One(count) == count <= 1

NoStreamLeft(count) == count = 0

\* shutdownStream, called by a handler that left the stream's state at s.
ShutdownStream(c, s) ==
  /\ scs' = [scs EXCEPT ![c] = Reclaim(s)]
  /\ client' = [client EXCEPT ![c] = "closed"]
  /\ awaiting' = [awaiting EXCEPT ![c] = "none"]
  /\ rtspClientCount' = rtspClientCount - 1
  /\ exited' = NoStreamLeft(rtspClientCount')
  /\ UNCHANGED urls

(***************************************************************************)
(* setupNextSubsession: subsessions that cannot be initiated are skipped.  *)
(* After the last one PLAY is sent, for a session that may have an end.    *)
(***************************************************************************)
SetupNextSubsession(c, s) ==
  /\ \/ \E i \in (s.subsession + 1)..s.nsubs :
          /\ scs' = [scs EXCEPT ![c] = [s EXCEPT !.subsession = i]]
          /\ awaiting' = [awaiting EXCEPT ![c] = "SETUP"]
     \/ \E timed \in BOOLEAN :
          /\ scs' = [scs EXCEPT ![c] = [s EXCEPT !.subsession = s.nsubs + 1,
                                                 !.duration = timed]]
          /\ awaiting' = [awaiting EXCEPT ![c] = "PLAY"]
  /\ UNCHANGED <<urls, client, rtspClientCount, exited>>
-----------------------------------------------------------------------------
\* continueAfterDESCRIBE: an error, or an SDP that yields no MediaSession, or
\* one whose session has no subsessions.
DescribeFailed(c) ==
  /\ EventLoop
  /\ awaiting[c] = "DESCRIBE"
  /\ \E made \in BOOLEAN : ShutdownStream(c, [scs[c] EXCEPT !.session = made])

DescribeOk(c) ==
  /\ EventLoop
  /\ awaiting[c] = "DESCRIBE"
  /\ \E n \in Subs :
       SetupNextSubsession(c, [scs[c] EXCEPT !.session = TRUE, !.nsubs = n])

\* continueAfterSETUP: the subsession is given up.
SetupFailed(c) ==
  /\ EventLoop
  /\ awaiting[c] = "SETUP"
  /\ SetupNextSubsession(c, scs[c])

\* A sink is created and started; the BYE handler needs an RTCP instance.
SetupOk(c) ==
  /\ EventLoop
  /\ awaiting[c] = "SETUP"
  /\ \E rtcp \in BOOLEAN :
       LET i == scs[c].subsession
       IN  SetupNextSubsession(c, [scs[c] EXCEPT !.sub[i] = "active",
                                                 !.bye[i] = rtcp])

PlayFailed(c) ==
  /\ EventLoop
  /\ awaiting[c] = "PLAY"
  /\ ShutdownStream(c, scs[c])

\* continueAfterPLAY: a stream of known duration gets a timer.
PlayOk(c) ==
  /\ EventLoop
  /\ awaiting[c] = "PLAY"
  /\ awaiting' = [awaiting EXCEPT ![c] = "none"]
  /\ scs' = [scs EXCEPT ![c].timer = scs[c].duration]
  /\ UNCHANGED <<urls, client, rtspClientCount, exited>>
-----------------------------------------------------------------------------
\* Mutant: a subsession counts as active for ever once it was set up.
SomeActive_Ever(s) == \E j \in Subs : s.sub[j] # "idle"

SomeActive(s) == \E j \in Subs : s.sub[j] = "active"

\* subsessionAfterPlaying: close the sink, and the client with the last one.
AfterPlaying(c, i, s) ==
  LET ended == [s EXCEPT !.sub[i] = "ended"]
  IN  IF SomeActive(ended)
      THEN /\ scs' = [scs EXCEPT ![c] = ended]
           /\ UNCHANGED <<urls, client, awaiting, rtspClientCount, exited>>
      ELSE ShutdownStream(c, ended)

\* The source of an active sink is closed.
SourceClosure(c, i) ==
  /\ EventLoop
  /\ scs[c].sub[i] = "active"
  /\ AfterPlaying(c, i, scs[c])

\* A RTCP BYE: the library may keep the handler or call it only once.
ByeHandler(c, i) ==
  /\ EventLoop
  /\ scs[c].bye[i]
  /\ \E kept \in BOOLEAN : AfterPlaying(c, i, [scs[c] EXCEPT !.bye[i] = kept])

\* Mutant: the handler forgets to shut the stream down.
StreamTimer_NoShutdown(c) ==
  /\ EventLoop
  /\ scs[c].timer
  /\ scs' = [scs EXCEPT ![c].timer = FALSE]
  /\ UNCHANGED <<urls, client, awaiting, rtspClientCount, exited>>

\* streamTimerHandler.
StreamTimer(c) ==
  /\ EventLoop
  /\ scs[c].timer
  /\ ShutdownStream(c, [scs[c] EXCEPT !.timer = FALSE])

Next ==
  \/ OpenURL \/ OpenURLFailed
  \/ \E c \in Streams :
       \/ DescribeFailed(c) \/ DescribeOk(c)
       \/ SetupFailed(c) \/ SetupOk(c)
       \/ PlayFailed(c) \/ PlayOk(c)
       \/ \E i \in Subs : SourceClosure(c, i) \/ ByeHandler(c, i)
       \/ StreamTimer(c)

Spec == Init /\ [][Next]_vars

\* The scheduler of the event loop runs every delayed task that is due; nothing
\* is assumed of the servers.
FairSpec == Spec /\ \A c \in Streams : WF_vars(StreamTimer(c))
-----------------------------------------------------------------------------
Scs == [session : BOOLEAN, nsubs : 0..MaxSubs, subsession : 0..(MaxSubs + 1),
        sub : [Subs -> SubState], bye : [Subs -> BOOLEAN],
        timer : BOOLEAN, duration : BOOLEAN]

TypeOK ==
  /\ urls \in 0..NumStreams
  /\ client \in [Streams -> {"none", "open", "closed"}]
  /\ awaiting \in [Streams -> {"none", "DESCRIBE", "SETUP", "PLAY"}]
  /\ scs \in [Streams -> Scs]
  /\ rtspClientCount \in 0..NumStreams
  /\ exited \in BOOLEAN

(***************************************************************************)
(* The count is the number of clients in existence: however a stream ends, *)
(* and however its endings race, shutdownStream runs once for it.          *)
(***************************************************************************)
Open == {c \in Streams : client[c] = "open"}

CountIsOpenClients == rtspClientCount = Cardinality(Open)

(***************************************************************************)
(* The program exits exactly when its last client is shut down: a stream   *)
(* is not cut short by the end of another, the program is not left running *)
(* without one.                                                            *)
(***************************************************************************)
ExitExactlyAtEnd ==
  exited <=> Open = {} /\ \E c \in Streams : client[c] = "closed"

(***************************************************************************)
(* No handler is left registered for a client that does not exist (any     *)
(* more): its response, its timer, its sinks and its BYE handlers are gone. *)
(***************************************************************************)
NoDanglingHandlers ==
  \A c \in Streams : client[c] # "open" =>
    /\ awaiting[c] = "none"
    /\ ~scs[c].timer
    /\ \A i \in Subs : scs[c].sub[i] # "active" /\ ~scs[c].bye[i]

(***************************************************************************)
(* A client does not outlive its subsessions: while it is open, an ended   *)
(* subsession implies another that still plays (and will end it).          *)
(***************************************************************************)
EndedImpliesActive ==
  \A c \in Streams :
    (\E i \in Subs : scs[c].sub[i] = "ended") =>
      \E j \in Subs : scs[c].sub[j] = "active"

(***************************************************************************)
(* A stream whose end is known is shut down, whatever its server does.     *)
(***************************************************************************)
TimedStreamsEnd == \A c \in Streams : scs[c].timer ~> client[c] = "closed"
-----------------------------------------------------------------------------
(***************************************************************************)
(* "All subsessions' streams have now been closed, so shutdown the client" *)
(* (subsessionAfterPlaying): not while one is still being set up.          *)
(***************************************************************************)
NoShutdownDuringSetup ==
  [][\A c \in Streams : awaiting[c] = "SETUP" => client'[c] = "open"]_vars
=============================================================================
