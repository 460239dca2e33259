-------------------------- MODULE RtspClientProofs --------------------------
(***************************************************************************)
(* For any number of streams and of subsessions: the count of the clients, *)
(* the exit of the program and the handlers that may still be called.      *)
(***************************************************************************)
EXTENDS RtspClient, FiniteSetTheorems, TLAPS

\* A client's state is as new before its session exists.
FreshWithoutSession == \A c \in Streams : ~scs[c].session => scs[c] = NewScs

\* Nothing is left of a client that does not exist.
NothingLeft ==
  \A c \in Streams : client[c] # "open" => /\ awaiting[c] = "none"
                                           /\ scs[c] = NewScs

\* What the outstanding request says of the state of its client.
RequestOK ==
  \A c \in Streams :
    /\ awaiting[c] = "DESCRIBE" => ~scs[c].session
    /\ awaiting[c] \in {"SETUP", "PLAY"} => scs[c].session
    /\ awaiting[c] = "SETUP" => scs[c].subsession \in Subs

\* No client is opened out of turn or closed before main is in the event loop.
InTurn ==
  \A c \in Streams : /\ c > urls => client[c] = "none"
                     /\ client[c] = "closed" => urls = NumStreams

IInv ==
  /\ TypeOK
  /\ FreshWithoutSession
  /\ NothingLeft
  /\ RequestOK
  /\ InTurn
  /\ CountIsOpenClients
  /\ ExitExactlyAtEnd
  /\ EndedImpliesActive

\* A state in which an ended subsession implies one that plays.
SubsOK(s) ==
  (\E i \in Subs : s.sub[i] = "ended") => \E j \in Subs : s.sub[j] = "active"
-----------------------------------------------------------------------------
\* There are finitely many streams, so any of them can be counted.
LEMMA StreamsFinite ==
  ASSUME NEW S \in SUBSET Streams
  PROVE  /\ IsFiniteSet(S)
         /\ Cardinality(S) \in 0..NumStreams
         /\ Cardinality(S) = 0 <=> S = {}
<1>1. IsFiniteSet(Streams) /\ Cardinality(Streams) = NumStreams
  BY FS_Interval, NumStreamsAssumption DEF Streams
<1>2. IsFiniteSet(S) /\ Cardinality(S) <= Cardinality(Streams)
  BY <1>1, FS_Subset
<1>3. Cardinality(S) \in Nat
  BY <1>2, FS_CardinalityType
<1> QED BY <1>1, <1>2, <1>3, FS_EmptySet, NumStreamsAssumption

\* A new state is well typed.
LEMMA NewScsType == NewScs \in Scs
BY MaxSubsAssumption DEF NewScs, Scs, Subs, SubState

\* A new state has no session, no timer and no subsession that has ended.
LEMMA NewScsIdle ==
  /\ ~NewScs.session /\ ~NewScs.timer
  /\ \A i \in Subs : NewScs.sub[i] = "idle" /\ ~NewScs.bye[i]
BY DEF NewScs

\* The initial state: no client, nothing counted.
LEMMA InitInv == Init => IInv
<1> SUFFICES ASSUME Init PROVE IInv
  OBVIOUS
<1>1. TypeOK
  <2>1. scs \in [Streams -> Scs]
    BY NewScsType DEF Init
  <2>2. 0 \in 0..NumStreams
    BY NumStreamsAssumption
  <2>3. urls \in 0..NumStreams /\ rtspClientCount \in 0..NumStreams
    BY <2>2 DEF Init
  <2>4. exited \in BOOLEAN
    BY DEF Init
  <2>5. /\ client \in [Streams -> {"none", "open", "closed"}]
        /\ awaiting \in [Streams -> {"none", "DESCRIBE", "SETUP", "PLAY"}]
    BY DEF Init
  <2> QED BY <2>1, <2>3, <2>4, <2>5 DEF TypeOK
<1>2. Open = {}
  BY DEF Init, Open
<1>3. CountIsOpenClients
  BY <1>2, FS_EmptySet DEF Init, CountIsOpenClients
<1>4. ExitExactlyAtEnd
  BY DEF Init, ExitExactlyAtEnd
<1>5. FreshWithoutSession /\ NothingLeft /\ RequestOK /\ InTurn
  BY DEF Init, FreshWithoutSession, NothingLeft, RequestOK, InTurn
<1>6. EndedImpliesActive
  <2> SUFFICES ASSUME NEW c \in Streams, NEW i \in Subs PROVE scs[c].sub[i] # "ended"
    BY DEF EndedImpliesActive
  <2>1. scs[c] = NewScs
    BY DEF Init
  <2> QED BY <2>1, NewScsIdle
<1> QED BY <1>1, <1>3, <1>4, <1>5, <1>6 DEF IInv

\* Opening a URL adds one client and counts it.
LEMMA OpenURLInv == IInv /\ OpenURL => IInv'
<1> SUFFICES ASSUME IInv, OpenURL PROVE IInv'
  OBVIOUS
<1> DEFINE c == urls + 1
<1>1. c \in Streams /\ client[c] = "none" /\ urls < NumStreams /\ urls \in Nat
  BY NumStreamsAssumption DEF IInv, TypeOK, OpenURL, InTurn, Streams
<1>2. client' = [client EXCEPT ![c] = "open"] /\ urls' = c
  BY DEF OpenURL
<1>3. scs' = scs /\ awaiting' = [awaiting EXCEPT ![c] = "DESCRIBE"]
  BY DEF OpenURL
<1>4. rtspClientCount' = rtspClientCount + 1 /\ exited' = exited
  BY DEF OpenURL
<1>5. scs[c] = NewScs
  BY <1>1 DEF IInv, NothingLeft
<1>6. client \in [Streams -> {"none", "open", "closed"}]
  BY DEF IInv, TypeOK
<1>7. Open' = Open \cup {c} /\ c \notin Open
  BY <1>1, <1>2, <1>6 DEF Open
<1>8. CountIsOpenClients'
  <2>1. Cardinality(Open') = Cardinality(Open) + 1
    <3>1. IsFiniteSet(Open)
      BY StreamsFinite DEF Open
    <3> QED BY <3>1, <1>7, FS_AddElement
  <2> QED BY <2>1, <1>4 DEF IInv, CountIsOpenClients
<1>9. TypeOK'
  <2>1. rtspClientCount' \in 0..NumStreams
    <3>1. Cardinality(Open') \in 0..NumStreams
      BY StreamsFinite DEF Open
    <3> QED BY <3>1, <1>8 DEF CountIsOpenClients
  <2>2. urls' \in 0..NumStreams
    BY <1>1, <1>2, NumStreamsAssumption
  <2> QED BY <2>1, <2>2, <1>1, <1>2, <1>3, <1>4 DEF IInv, TypeOK
<1> HIDE DEF c
<1>10. InTurn'
  <2>1. ASSUME NEW d \in Streams
        PROVE  /\ d > urls' => client'[d] = "none"
               /\ client'[d] # "closed"
    <3>1. client[d] # "closed" /\ (d > urls => client[d] = "none")
      BY <1>1 DEF IInv, InTurn
    <3> QED BY <3>1, <1>1, <1>2, <1>6 DEF c, Streams
  <2> QED BY <2>1 DEF InTurn
<1>11. ExitExactlyAtEnd'
  <2>1. ~exited
    BY <1>1 DEF IInv, ExitExactlyAtEnd, InTurn
  <2>2. Open' # {}
    BY <1>7
  <2> QED BY <2>1, <2>2, <1>4 DEF ExitExactlyAtEnd
<1>12. FreshWithoutSession' /\ EndedImpliesActive'
  BY <1>3 DEF IInv, FreshWithoutSession, EndedImpliesActive
<1>13. NothingLeft'
  BY <1>2, <1>3, <1>6 DEF IInv, NothingLeft, TypeOK
<1>14. RequestOK'
  BY <1>1, <1>3, <1>5 DEF IInv, RequestOK, TypeOK, NewScs
<1> QED BY <1>8, <1>9, <1>10, <1>11, <1>12, <1>13, <1>14 DEF IInv

\* Passing over a URL changes no client.
LEMMA OpenURLFailedInv == IInv /\ OpenURLFailed => IInv'
<1> SUFFICES ASSUME IInv, OpenURLFailed PROVE IInv'
  OBVIOUS
<1>1. urls \in Nat /\ urls < NumStreams /\ urls' = urls + 1
  BY DEF IInv, TypeOK, OpenURLFailed
<1>2. UNCHANGED <<client, awaiting, scs, rtspClientCount, exited>>
  BY DEF OpenURLFailed
<1>3. TypeOK'
  <2>1. urls' \in 0..NumStreams
    BY <1>1, NumStreamsAssumption
  <2> QED BY <2>1, <1>2 DEF IInv, TypeOK
<1>4. InTurn'
  BY <1>1, <1>2 DEF IInv, InTurn, Streams
<1> QED BY <1>2, <1>3, <1>4
        DEF IInv, FreshWithoutSession, NothingLeft, RequestOK, CountIsOpenClients,
            ExitExactlyAtEnd, EndedImpliesActive, Open

\* shutdownStream on an open client, whose timer is off without a session.
LEMMA ShutdownInv ==
  ASSUME IInv, NEW c \in Streams, client[c] = "open", EventLoop,
         NEW s \in Scs, s.session \/ ~s.timer, ShutdownStream(c, s)
  PROVE  IInv'
<1>1. Reclaim(s) = NewScs
  BY DEF Reclaim, NewScs, Scs
<1>2. /\ scs' = [scs EXCEPT ![c] = NewScs]
      /\ client' = [client EXCEPT ![c] = "closed"]
      /\ awaiting' = [awaiting EXCEPT ![c] = "none"]
      /\ rtspClientCount' = rtspClientCount - 1
      /\ urls' = urls /\ urls = NumStreams
  BY <1>1 DEF ShutdownStream, EventLoop
<1>3. /\ client \in [Streams -> {"none", "open", "closed"}]
      /\ awaiting \in [Streams -> {"none", "DESCRIBE", "SETUP", "PLAY"}]
      /\ scs \in [Streams -> Scs]
  BY DEF IInv, TypeOK
<1>4. Open' = Open \ {c} /\ c \in Open
  BY <1>2, <1>3 DEF Open
<1>5. CountIsOpenClients'
  <2>1. Cardinality(Open') = Cardinality(Open) - 1
    <3>1. IsFiniteSet(Open)
      BY StreamsFinite DEF Open
    <3> QED BY <3>1, <1>4, FS_RemoveElement
  <2> QED BY <2>1, <1>2 DEF IInv, CountIsOpenClients
<1>6. /\ Cardinality(Open') \in 0..NumStreams
      /\ Cardinality(Open') = 0 <=> Open' = {}
  BY StreamsFinite DEF Open
<1>7. exited' = (rtspClientCount' = 0)
  BY DEF ShutdownStream, NoStreamLeft
<1>8. TypeOK'
  <2>1. rtspClientCount' \in 0..NumStreams
    BY <1>5, <1>6 DEF CountIsOpenClients
  <2>2. exited' \in BOOLEAN
    BY <1>7
  <2> QED BY <2>1, <2>2, <1>2, NewScsType DEF IInv, TypeOK
<1>9. ExitExactlyAtEnd'
  <2>1. rtspClientCount' = 0 <=> Open' = {}
    BY <1>5, <1>6 DEF CountIsOpenClients
  <2>2. client'[c] = "closed"
    BY <1>2, <1>3
  <2> QED BY <2>1, <2>2, <1>7 DEF ExitExactlyAtEnd
<1>10. InTurn'
  BY <1>2, <1>3, NumStreamsAssumption DEF IInv, InTurn, Streams
<1>11. FreshWithoutSession' /\ NothingLeft'
  BY <1>2, <1>3 DEF IInv, FreshWithoutSession, NothingLeft
<1>12. RequestOK'
  BY <1>2, <1>3 DEF IInv, RequestOK
<1>13. EndedImpliesActive'
  <2> SUFFICES ASSUME NEW d \in Streams PROVE SubsOK(scs'[d])
    BY DEF EndedImpliesActive, SubsOK
  <2>1. CASE d = c
    BY <2>1, <1>2, <1>3, NewScsIdle DEF SubsOK
  <2>2. CASE d # c
    BY <2>2, <1>2, <1>3 DEF IInv, EndedImpliesActive, SubsOK
  <2> QED BY <2>1, <2>2
<1> QED BY <1>5, <1>8, <1>9, <1>10, <1>11, <1>12, <1>13 DEF IInv

\* A handler that leaves its client open, with session, in state t.
LEMMA StaysOpenInv ==
  ASSUME IInv, NEW c \in Streams, client[c] = "open",
         NEW t \in Scs, t.session, SubsOK(t),
         NEW w \in {"none", "SETUP", "PLAY"}, w = "SETUP" => t.subsession \in Subs,
         scs' = [scs EXCEPT ![c] = t], awaiting' = [awaiting EXCEPT ![c] = w],
         UNCHANGED <<urls, client, rtspClientCount, exited>>
  PROVE  IInv'
<1>1. /\ awaiting \in [Streams -> {"none", "DESCRIBE", "SETUP", "PLAY"}]
      /\ scs \in [Streams -> Scs]
  BY DEF IInv, TypeOK
<1>2. TypeOK'
  BY <1>1 DEF IInv, TypeOK
<1>3. InTurn' /\ CountIsOpenClients' /\ ExitExactlyAtEnd'
  BY DEF IInv, InTurn, CountIsOpenClients, ExitExactlyAtEnd, Open
<1>4. FreshWithoutSession' /\ NothingLeft'
  BY <1>1 DEF IInv, FreshWithoutSession, NothingLeft
<1>5. RequestOK'
  BY <1>1 DEF IInv, RequestOK
<1>6. EndedImpliesActive'
  <2> SUFFICES ASSUME NEW d \in Streams PROVE SubsOK(scs'[d])
    BY DEF EndedImpliesActive, SubsOK
  <2>1. CASE d = c
    BY <2>1, <1>1
  <2>2. CASE d # c
    BY <2>2, <1>1 DEF IInv, EndedImpliesActive, SubsOK
  <2> QED BY <2>1, <2>2
<1> QED BY <1>2, <1>3, <1>4, <1>5, <1>6 DEF IInv

\* setupNextSubsession keeps the client, whichever request it sends.
LEMMA SetupNextInv ==
  ASSUME IInv, NEW c \in Streams, client[c] = "open",
         NEW s \in Scs, s.session, SubsOK(s), SetupNextSubsession(c, s)
  PROVE  IInv'
<1>1. s.nsubs \in 0..MaxSubs /\ s.subsession \in 0..(MaxSubs + 1)
  BY DEF Scs
<1>2. ASSUME NEW i \in (s.subsession + 1)..s.nsubs,
             scs' = [scs EXCEPT ![c] = [s EXCEPT !.subsession = i]],
             awaiting' = [awaiting EXCEPT ![c] = "SETUP"]
      PROVE  IInv'
  <2> DEFINE t == [s EXCEPT !.subsession = i]
  <2>1. i \in Subs /\ i \in 0..(MaxSubs + 1)
    BY <1>1, <1>2, MaxSubsAssumption DEF Subs
  <2>2. t \in Scs /\ t.session /\ t.sub = s.sub /\ t.subsession = i
    BY <2>1 DEF Scs
  <2>3. SubsOK(t)
    BY <2>2 DEF SubsOK
  <2>4. UNCHANGED <<urls, client, rtspClientCount, exited>>
    BY DEF SetupNextSubsession
  <2> HIDE DEF t
  <2>5. scs' = [scs EXCEPT ![c] = t]
    BY <1>2 DEF t
  <2> QED BY <2>1, <2>2, <2>3, <2>4, <2>5, <1>2, StaysOpenInv
<1>3. ASSUME NEW timed \in BOOLEAN,
             scs' = [scs EXCEPT ![c] = [s EXCEPT !.subsession = s.nsubs + 1,
                                                 !.duration = timed]],
             awaiting' = [awaiting EXCEPT ![c] = "PLAY"]
      PROVE  IInv'
  <2> DEFINE t == [s EXCEPT !.subsession = s.nsubs + 1, !.duration = timed]
  <2>1. s.nsubs + 1 \in 0..(MaxSubs + 1)
    BY <1>1, MaxSubsAssumption
  <2>2. t \in Scs /\ t.session /\ t.sub = s.sub
    BY <2>1 DEF Scs
  <2>3. SubsOK(t)
    BY <2>2 DEF SubsOK
  <2>4. UNCHANGED <<urls, client, rtspClientCount, exited>>
    BY DEF SetupNextSubsession
  <2> HIDE DEF t
  <2>5. scs' = [scs EXCEPT ![c] = t]
    BY <1>3 DEF t
  <2> QED BY <2>2, <2>3, <2>4, <2>5, <1>3, StaysOpenInv
<1> QED BY <1>2, <1>3 DEF SetupNextSubsession

\* Closing a subsession leaves one that plays, or shuts the client down.
LEMMA AfterPlayingInv ==
  ASSUME IInv, NEW c \in Streams, client[c] = "open", EventLoop,
         NEW i \in Subs, NEW s \in Scs, s.session, scs[c].session,
         awaiting[c] = "SETUP" => s.subsession \in Subs, AfterPlaying(c, i, s)
  PROVE  IInv'
<1> DEFINE t == [s EXCEPT !.sub[i] = "ended"]
<1>1. t \in Scs /\ t.session /\ t.subsession = s.subsession
  BY DEF Scs, SubState
<1>2. CASE SomeActive(t)
  <2>1. /\ scs' = [scs EXCEPT ![c] = t]
        /\ UNCHANGED <<urls, client, awaiting, rtspClientCount, exited>>
    BY <1>2 DEF AfterPlaying
  <2>2. SubsOK(t)
    BY <1>2 DEF SomeActive, SubsOK
  <2>3. awaiting[c] \in {"none", "DESCRIBE", "SETUP", "PLAY"}
    BY DEF IInv, TypeOK
  <2> HIDE DEF t
  <2> DEFINE w == awaiting[c]
  <2>4. awaiting' = [awaiting EXCEPT ![c] = w]
    BY <2>1 DEF IInv, TypeOK
  <2>5. w \in {"none", "SETUP", "PLAY"}
    BY <2>3 DEF IInv, RequestOK
  <2>6. w = "SETUP" => t.subsession \in Subs
    BY <1>1
  <2> HIDE DEF w
  <2> QED BY <1>1, <2>1, <2>2, <2>4, <2>5, <2>6, StaysOpenInv
<1>3. CASE ~SomeActive(t)
  <2>1. ShutdownStream(c, t)
    BY <1>3 DEF AfterPlaying
  <2> HIDE DEF t
  <2> QED BY <2>1, <1>1, ShutdownInv
<1> QED BY <1>2, <1>3

\* Whatever a handler is registered with belongs to an open client, whose
\* session exists.
LEMMA RegisteredOpen ==
  ASSUME IInv, NEW c \in Streams
  PROVE  /\ awaiting[c] # "none" => client[c] = "open"
         /\ scs[c].timer => client[c] = "open" /\ scs[c].session
         /\ \A i \in Subs :
              scs[c].sub[i] = "active" \/ scs[c].bye[i] =>
                client[c] = "open" /\ scs[c].session
<1>1. client[c] # "open" => awaiting[c] = "none" /\ scs[c] = NewScs
  BY DEF IInv, NothingLeft
<1>2. ~scs[c].session => scs[c] = NewScs
  BY DEF IInv, FreshWithoutSession
<1> QED BY <1>1, <1>2, NewScsIdle

\* Every step of the client preserves the invariant.
LEMMA NextInv == IInv /\ [Next]_vars => IInv'
<1> SUFFICES ASSUME IInv, [Next]_vars PROVE IInv'
  OBVIOUS
<1>1. CASE OpenURL \/ OpenURLFailed
  BY <1>1, OpenURLInv, OpenURLFailedInv
<1>2. ASSUME NEW c \in Streams, DescribeFailed(c) PROVE IInv'
  <2>1. PICK made \in BOOLEAN : ShutdownStream(c, [scs[c] EXCEPT !.session = made])
    BY <1>2 DEF DescribeFailed
  <2> DEFINE s == [scs[c] EXCEPT !.session = made]
  <2>2. client[c] = "open" /\ EventLoop /\ scs[c] = NewScs
    BY <1>2, RegisteredOpen DEF DescribeFailed, IInv, RequestOK, FreshWithoutSession
  <2>3. s \in Scs /\ ~s.timer
    BY <2>2, NewScsType, NewScsIdle DEF Scs
  <2> HIDE DEF s
  <2>4. ShutdownStream(c, s)
    BY <2>1 DEF s
  <2> QED BY <2>2, <2>3, <2>4, ShutdownInv
<1>3. ASSUME NEW c \in Streams, DescribeOk(c) PROVE IInv'
  <2>1. PICK n \in Subs :
          SetupNextSubsession(c, [scs[c] EXCEPT !.session = TRUE, !.nsubs = n])
    BY <1>3 DEF DescribeOk
  <2> DEFINE s == [scs[c] EXCEPT !.session = TRUE, !.nsubs = n]
  <2>2. client[c] = "open" /\ scs[c] = NewScs
    BY <1>3, RegisteredOpen DEF DescribeOk, IInv, RequestOK, FreshWithoutSession
  <2>3. n \in 0..MaxSubs
    BY MaxSubsAssumption DEF Subs
  <2>4. s \in Scs /\ s.session /\ s.sub = NewScs.sub
    BY <2>2, <2>3, NewScsType DEF Scs
  <2> HIDE DEF s
  <2>5. SubsOK(s)
    BY <2>4, NewScsIdle DEF SubsOK
  <2>6. SetupNextSubsession(c, s)
    BY <2>1 DEF s
  <2> QED BY <2>2, <2>4, <2>5, <2>6, SetupNextInv
<1>4. ASSUME NEW c \in Streams, SetupFailed(c) PROVE IInv'
  <2>1. scs[c] \in Scs /\ client[c] = "open" /\ scs[c].session
    BY <1>4, RegisteredOpen DEF SetupFailed, IInv, TypeOK, RequestOK
  <2>2. SubsOK(scs[c])
    BY DEF IInv, EndedImpliesActive, SubsOK
  <2>3. SetupNextSubsession(c, scs[c])
    BY <1>4 DEF SetupFailed
  <2> QED BY <2>1, <2>2, <2>3, SetupNextInv
<1>5. ASSUME NEW c \in Streams, SetupOk(c) PROVE IInv'
  <2> DEFINE i == scs[c].subsession
  <2>1. PICK rtcp \in BOOLEAN :
          SetupNextSubsession(c, [scs[c] EXCEPT !.sub[i] = "active", !.bye[i] = rtcp])
    BY <1>5 DEF SetupOk
  <2>2. scs[c] \in Scs /\ client[c] = "open" /\ scs[c].session /\ i \in Subs
    BY <1>5, RegisteredOpen DEF SetupOk, IInv, TypeOK, RequestOK
  <2> DEFINE s == [scs[c] EXCEPT !.sub[i] = "active", !.bye[i] = rtcp]
  <2> HIDE DEF i
  <2>3. s \in Scs /\ s.session /\ s.sub[i] = "active"
    BY <2>2 DEF Scs, SubState
  <2>4. SubsOK(s)
    BY <2>2, <2>3 DEF SubsOK
  <2> HIDE DEF s
  <2>5. SetupNextSubsession(c, s)
    BY <2>1 DEF s
  <2> QED BY <2>2, <2>3, <2>4, <2>5, SetupNextInv
<1>6. ASSUME NEW c \in Streams, PlayFailed(c) PROVE IInv'
  <2>1. /\ scs[c] \in Scs /\ client[c] = "open" /\ scs[c].session /\ EventLoop
        /\ ShutdownStream(c, scs[c])
    BY <1>6, RegisteredOpen DEF PlayFailed, IInv, TypeOK, RequestOK
  <2> QED BY <2>1, ShutdownInv
<1>7. ASSUME NEW c \in Streams, PlayOk(c) PROVE IInv'
  <2> DEFINE t == [scs[c] EXCEPT !.timer = scs[c].duration]
  <2>1. scs[c] \in Scs /\ client[c] = "open" /\ scs[c].session
    BY <1>7, RegisteredOpen DEF PlayOk, IInv, TypeOK, RequestOK
  <2>2. t \in Scs /\ t.session /\ t.sub = scs[c].sub
    BY <2>1 DEF Scs
  <2>3. SubsOK(t)
    BY <2>2 DEF IInv, EndedImpliesActive, SubsOK
  <2>4. scs' = [scs EXCEPT ![c] = t]
    BY <1>7 DEF PlayOk
  <2>5. /\ awaiting' = [awaiting EXCEPT ![c] = "none"]
        /\ UNCHANGED <<urls, client, rtspClientCount, exited>>
    BY <1>7 DEF PlayOk
  <2> HIDE DEF t
  <2> QED BY <2>1, <2>2, <2>3, <2>4, <2>5, StaysOpenInv
<1>8. ASSUME NEW c \in Streams, NEW i \in Subs, SourceClosure(c, i) PROVE IInv'
  <2>1. /\ scs[c] \in Scs /\ client[c] = "open" /\ scs[c].session /\ EventLoop
        /\ AfterPlaying(c, i, scs[c])
    BY <1>8, RegisteredOpen DEF SourceClosure, IInv, TypeOK
  <2>2. awaiting[c] = "SETUP" => scs[c].subsession \in Subs
    BY DEF IInv, RequestOK
  <2> QED BY <2>1, <2>2, AfterPlayingInv
<1>9. ASSUME NEW c \in Streams, NEW i \in Subs, ByeHandler(c, i) PROVE IInv'
  <2>1. PICK kept \in BOOLEAN : AfterPlaying(c, i, [scs[c] EXCEPT !.bye[i] = kept])
    BY <1>9 DEF ByeHandler
  <2> DEFINE s == [scs[c] EXCEPT !.bye[i] = kept]
  <2>2. scs[c] \in Scs /\ client[c] = "open" /\ scs[c].session /\ EventLoop
    BY <1>9, RegisteredOpen DEF ByeHandler, IInv, TypeOK
  <2>3. s \in Scs /\ s.session /\ s.subsession = scs[c].subsession
    BY <2>2 DEF Scs
  <2>4. awaiting[c] = "SETUP" => s.subsession \in Subs
    BY <2>3 DEF IInv, RequestOK
  <2> HIDE DEF s
  <2>5. AfterPlaying(c, i, s)
    BY <2>1 DEF s
  <2> QED BY <2>2, <2>3, <2>4, <2>5, AfterPlayingInv
<1>10. ASSUME NEW c \in Streams, StreamTimer(c) PROVE IInv'
  <2> DEFINE s == [scs[c] EXCEPT !.timer = FALSE]
  <2>1. scs[c] \in Scs /\ client[c] = "open" /\ EventLoop
    BY <1>10, RegisteredOpen DEF StreamTimer, IInv, TypeOK
  <2>2. s \in Scs /\ ~s.timer
    BY <2>1 DEF Scs
  <2>3. ShutdownStream(c, s)
    BY <1>10 DEF StreamTimer
  <2> HIDE DEF s
  <2> QED BY <2>1, <2>2, <2>3, ShutdownInv
<1>11. CASE UNCHANGED vars
  BY <1>11 DEF vars, IInv, TypeOK, FreshWithoutSession, NothingLeft, RequestOK,
               InTurn, CountIsOpenClients, ExitExactlyAtEnd, EndedImpliesActive, Open
<1> QED BY <1>1, <1>2, <1>3, <1>4, <1>5, <1>6, <1>7, <1>8, <1>9, <1>10, <1>11
        DEF Next

\* IInv is an invariant of the client.
THEOREM Invariance == Spec => []IInv
<1>1. Init => IInv
  BY InitInv
<1>2. IInv /\ [Next]_vars => IInv'
  BY NextInv
<1> QED BY <1>1, <1>2, PTL DEF Spec

\* The state of the client is always well typed.
THEOREM TypeCorrect == Spec => []TypeOK
<1>1. IInv => TypeOK
  BY DEF IInv
<1> QED BY <1>1, Invariance, PTL

\* However streams end and their endings race, shutdownStream runs exactly
\* once for each: the count is that of the clients in existence.
THEOREM CountCorrect == Spec => []CountIsOpenClients
<1>1. IInv => CountIsOpenClients
  BY DEF IInv
<1> QED BY <1>1, Invariance, PTL

\* The program exits with its last stream, never before and never later.
THEOREM ExitCorrect == Spec => []ExitExactlyAtEnd
<1>1. IInv => ExitExactlyAtEnd
  BY DEF IInv
<1> QED BY <1>1, Invariance, PTL

\* No response, timer, closure or BYE ever reaches a deleted client.
THEOREM HandlersCorrect == Spec => []NoDanglingHandlers
<1>1. ASSUME IInv PROVE NoDanglingHandlers
  <2> SUFFICES ASSUME NEW c \in Streams, client[c] # "open"
               PROVE  /\ awaiting[c] = "none"
                      /\ ~scs[c].timer
                      /\ \A i \in Subs : scs[c].sub[i] # "active" /\ ~scs[c].bye[i]
    BY DEF NoDanglingHandlers
  <2> QED BY <1>1, RegisteredOpen
<1> QED BY <1>1, Invariance, PTL

\* An open client with an ended subsession has another that plays.
THEOREM EndedCorrect == Spec => []EndedImpliesActive
<1>1. IInv => EndedImpliesActive
  BY DEF IInv
<1> QED BY <1>1, Invariance, PTL
=============================================================================
