-------------------------- MODULE NormReaderProofs ---------------------------
(***************************************************************************)
(* Theorems about the pod that answers calls (NormReader): it keeps the    *)
(* promise of PointInTime, and what it sends to Fedlex is bounded by what  *)
(* was paid for.                                                           *)
(***************************************************************************)
EXTENDS NormReader, SequenceTheorems, FiniteSetTheorems, TLAPS

Askings  == [pc : {"quota"}, req : Requests, since : Days]
Workings == [pc : Working, req : Requests, since : Days, days : Seq(Days),
             got : Seq(Versions), pick : Versions \cup {NoVersion}]
Texts    == [kind : {"text"}, days : Seq(Days), lang : Langs, found : Seq(Versions),
             asked : Days \cup {NotGiven}, since : Days]

\* A handler at work asks for one or two days, has not received all it asked
\* for, and knows the version it is about to read.
Progress(w) ==
    /\ Len(w.days) \in {1, 2} /\ Len(w.got) < Len(w.days)
    /\ w.req.asOf # Malformed
    /\ w.pc # "query" => w.pick \in Versions

Tasks   == {Idle} \cup Askings \cup {w \in Workings : Progress(w)}
Answers == {Error} \cup Texts

ReaderInv ==
    /\ day \in Days /\ default \in Days
    /\ published \subseteq Versions
    /\ xml \subseteq published \X Langs
    /\ call \in [Calls -> Tasks]
    /\ said \in [Calls -> Answers]

LEMMA KindsOfTasks ==
    ASSUME NEW w \in Tasks
    PROVE  /\ w.pc = "quota" => w \in Askings
           /\ w.pc \in Working => w \in Workings /\ Progress(w)
  BY DEF Tasks, Askings, Workings, Working, Idle

LEMMA ReaderInitially == Init => ReaderInv
  BY DEF Init, ReaderInv, Tasks, Answers

LEMMA RespondTyped ==
    ASSUME ReaderInv, NEW c \in Calls, NEW r \in Answers, Respond(c, r)
    PROVE  call' \in [Calls -> Tasks] /\ said' \in [Calls -> Answers]
  <1>1. Idle \in Tasks
    BY DEF Tasks
  <1> QED BY <1>1 DEF ReaderInv, Respond

LEMMA ErrorIsAnswer == Error \in Answers
  BY DEF Answers

LEMMA DispatchTyped ==
    ASSUME ReaderInv, NEW c \in Calls, Dispatch(c)
    PROVE  call' \in [Calls -> Tasks] /\ said' \in [Calls -> Answers]
  <1> DEFINE q     == call[c].req
             stamp == IF q.asOf = NotGiven THEN default ELSE q.asOf
  <1>1. call[c] \in Askings
    BY KindsOfTasks DEF Dispatch, ReaderInv
  <1>2. q \in Requests /\ call[c].since \in Days
    BY <1>1 DEF Askings
  <1>3. CASE Respond(c, Error)
    BY <1>3, RespondTyped, ErrorIsAnswer
  <1>4. CASE ~Respond(c, Error)
    <2> DEFINE days == DaysOf(q, stamp)
               w == [pc |-> "query", req |-> q, since |-> call[c].since,
                     days |-> days, got |-> <<>>, pick |-> NoVersion]
    <2>1. q.asOf # Malformed /\ Dispatchable(q) /\ call' = [call EXCEPT ![c] = w] /\ UNCHANGED said
      BY <1>4 DEF Dispatch
    <2>2. stamp \in Days
      BY <1>2, <2>1, RequestsAssumption DEF NotGiven, Malformed, ReaderInv
    <2>3. days \in Seq(Days) /\ Len(days) \in {1, 2}
      BY <2>1, <2>2 DEF DaysOf, Dispatchable
    <2> HIDE DEF days
    <2>4. w \in Workings
      BY <1>2, <2>3 DEF Workings, Working
    <2>5. Progress(w)
      BY <2>1, <2>3 DEF Progress
    <2>6. w \in Tasks
      BY <2>4, <2>5 DEF Tasks
    <2> HIDE DEF w
    <2> QED BY <2>1, <2>6 DEF ReaderInv
  <1> QED BY <1>3, <1>4

LEMMA ResolveTyped ==
    ASSUME ReaderInv, NEW c \in Calls, ResolveConsolidationAt(c)
    PROVE  call' \in [Calls -> Tasks] /\ said' \in [Calls -> Answers]
  <1>1. call[c] \in Workings /\ Progress(call[c])
    BY KindsOfTasks DEF ResolveConsolidationAt, ReaderInv, Working
  <1>2. CASE Respond(c, Error)
    BY <1>2, RespondTyped, ErrorIsAnswer
  <1>3. CASE ~Respond(c, Error)
    <2>1. PICK v \in published :
              /\ call' = [call EXCEPT ![c].pc = "lookup", ![c].pick = v]
              /\ UNCHANGED said
      BY <1>3 DEF ResolveConsolidationAt, Resolved, Rows
    <2> DEFINE w == [call[c] EXCEPT !.pc = "lookup", !.pick = v]
    <2>2. w \in Workings /\ Progress(w)
      BY <1>1 DEF Workings, Working, Progress, ReaderInv
    <2>3. call' = [call EXCEPT ![c] = w]
      BY <2>1 DEF ReaderInv
    <2> HIDE DEF w
    <2>4. w \in Tasks
      BY <2>2 DEF Tasks
    <2> QED BY <2>1, <2>3, <2>4 DEF ReaderInv
  <1> QED BY <1>2, <1>3

LEMMA ReceivedTyped ==
    ASSUME ReaderInv, NEW c \in Calls, call[c].pc \in {"lookup", "download"},
           Received(c) \/ Respond(c, Error)
    PROVE  call' \in [Calls -> Tasks] /\ said' \in [Calls -> Answers]
  <1>1. call[c] \in Workings /\ Progress(call[c])
    BY KindsOfTasks DEF ReaderInv, Working
  <1> DEFINE got == Append(call[c].got, call[c].pick)
  <1>2. got \in Seq(Versions) /\ Len(got) = Len(call[c].got) + 1
    BY <1>1 DEF Workings, Progress
  <1> HIDE DEF got
  <1>3. CASE Respond(c, Error)
    BY <1>3, RespondTyped, ErrorIsAnswer
  <1>4. CASE Len(got) < Len(call[c].days) /\ ~Respond(c, Error)
    <2> DEFINE w == [call[c] EXCEPT !.pc = "query", !.got = got, !.pick = NoVersion]
    <2>1. w \in Workings /\ Progress(w)
      BY <1>1, <1>2, <1>4 DEF Workings, Working, Progress
    <2>2. call' = [call EXCEPT ![c] = w] /\ UNCHANGED said
      BY <1>4 DEF Received, got, ReaderInv
    <2> HIDE DEF w
    <2>3. w \in Tasks
      BY <2>1 DEF Tasks
    <2> QED BY <2>2, <2>3 DEF ReaderInv
  <1>5. CASE ~(Len(got) < Len(call[c].days)) /\ ~Respond(c, Error)
    <2> DEFINE r == [kind |-> "text", days |-> call[c].days, lang |-> call[c].req.lang,
                     found |-> got, asked |-> call[c].req.asOf, since |-> call[c].since]
    <2>1. Respond(c, r)
      BY <1>5 DEF Received, got
    <2>2. call[c].req.lang \in Langs /\ call[c].req.asOf \in Days \cup {NotGiven}
      BY <1>1, RequestsAssumption DEF Workings, Progress, NotGiven, Malformed
    <2>3. r \in Texts
      BY <1>1, <1>2, <2>2 DEF Texts, Workings
    <2> HIDE DEF r
    <2> QED BY <2>1, <2>3, RespondTyped DEF Answers
  <1> QED BY <1>3, <1>4, <1>5

LEMMA ReaderStep == ReaderInv /\ [Next]_vars => ReaderInv'
  <1> SUFFICES ASSUME ReaderInv, [Next]_vars PROVE ReaderInv'
    OBVIOUS
  <1>1. ASSUME NEW c \in Calls, NEW q \in Requests, Arrive(c, q) PROVE ReaderInv'
    <2>1. CASE Respond(c, Error)
      BY <1>1, <2>1, RespondTyped, ErrorIsAnswer DEF Arrive, fedlex, ReaderInv
    <2>2. CASE ~Respond(c, Error)
      <3> DEFINE w == [pc |-> "quota", req |-> q, since |-> day]
      <3>1. w \in Tasks
        BY DEF ReaderInv, Tasks, Askings
      <3>2. call' = [call EXCEPT ![c] = w] /\ UNCHANGED said
        BY <1>1, <2>2 DEF Arrive
      <3> HIDE DEF w
      <3> QED BY <1>1, <3>1, <3>2 DEF Arrive, fedlex, ReaderInv
    <2> QED BY <2>1, <2>2
  <1>2. ASSUME NEW c \in Calls, Denied(c) PROVE ReaderInv'
    BY <1>2, RespondTyped, ErrorIsAnswer DEF Denied, fedlex, ReaderInv
  <1>3. ASSUME NEW c \in Calls, Dispatch(c) PROVE ReaderInv'
    BY <1>3, DispatchTyped DEF Dispatch, fedlex, ReaderInv
  <1>4. ASSUME NEW c \in Calls, ResolveConsolidationAt(c) PROVE ReaderInv'
    BY <1>4, ResolveTyped DEF ResolveConsolidationAt, fedlex, ReaderInv
  <1>5. ASSUME NEW c \in Calls, Lookup(c) PROVE ReaderInv'
    <2>1. call' \in [Calls -> Tasks] /\ said' \in [Calls -> Answers]
      <3>1. CASE Received(c)
        BY <1>5, <3>1, ReceivedTyped DEF Lookup
      <3>2. CASE call' = [call EXCEPT ![c].pc = "download"] /\ UNCHANGED said
        <4> DEFINE w == [call[c] EXCEPT !.pc = "download"]
        <4>1. call[c] \in Workings /\ Progress(call[c])
          BY <1>5, KindsOfTasks DEF Lookup, ReaderInv, Working
        <4>2. w \in Workings /\ Progress(w)
          BY <1>5, <4>1 DEF Lookup, Workings, Working, Progress
        <4>3. call' = [call EXCEPT ![c] = w]
          BY <3>2 DEF ReaderInv
        <4> HIDE DEF w
        <4>4. w \in Tasks
          BY <4>2 DEF Tasks
        <4> QED BY <3>2, <4>3, <4>4 DEF ReaderInv
      <3> QED BY <1>5, <3>1, <3>2 DEF Lookup
    <2> QED BY <1>5, <2>1 DEF Lookup, fedlex, ReaderInv
  <1>6. ASSUME NEW c \in Calls, Download(c) PROVE ReaderInv'
    <2>1. call' \in [Calls -> Tasks] /\ said' \in [Calls -> Answers]
      BY <1>6, ReceivedTyped DEF Download
    <2> QED BY <1>6, <2>1 DEF Download, fedlex, ReaderInv
  <1>7. ASSUME NEW c \in Calls, HangUp(c) PROVE ReaderInv'
    BY <1>7, RespondTyped, ErrorIsAnswer DEF HangUp, fedlex, ReaderInv
  <1>8. ASSUME Evict \/ Midnight PROVE ReaderInv'
    BY <1>8 DEF Evict, Midnight, fedlex, ReaderInv
  <1>9. ASSUME NEW v \in Versions, PublishVersion(v) PROVE ReaderInv'
    BY <1>9 DEF PublishVersion, ReaderInv
  <1>10. ASSUME NEW v \in Versions, NEW l \in Langs, PublishXml(v, l) PROVE ReaderInv'
    BY <1>10 DEF PublishXml, ReaderInv
  <1>11. ASSUME Restart PROVE ReaderInv'
    BY <1>11 DEF Restart, fedlex, ReaderInv, Tasks
  <1>12. ASSUME UNCHANGED vars PROVE ReaderInv'
    BY <1>12 DEF vars, fedlex, ReaderInv
  <1> QED BY <1>1, <1>2, <1>3, <1>4, <1>5, <1>6, <1>7, <1>8, <1>9, <1>10, <1>11, <1>12 DEF Next, CallStep

LEMMA ReaderAlways == Spec => []ReaderInv
  BY ReaderInitially, ReaderStep, PTL DEF Spec

-----------------------------------------------------------------------------
(* KeepsPromise.                                                              *)

\* What the mapping makes of a handler and of an answer.
Looking(w) ==
    IF w.pc \notin Working THEN [open |-> FALSE]
    ELSE [open |-> TRUE, lang |-> w.req.lang, days |-> w.days,
          found |-> IF w.pc = "query" THEN w.got ELSE Append(w.got, w.pick)]
Telling(a) ==
    IF a.kind = "error" THEN Error
    ELSE [kind |-> "text", days |-> a.days, lang |-> a.lang, found |-> a.found]
LookSeen == [c \in Calls |-> Looking(call[c])]
SaidSeen == [c \in Calls |-> Telling(said[c])]

Shown == INSTANCE PointInTime WITH readable <- xml, look <- LookSeen, said <- SaidSeen

LEMMA LookOne ==
    ASSUME ReaderInv, NEW c \in Calls, NEW w, call' = [call EXCEPT ![c] = w]
    PROVE  LookSeen' = [LookSeen EXCEPT ![c] = Looking(w)]
  <1>1. call'[c] = w /\ \A d \in Calls \ {c} : call'[d] = call[d]
    BY DEF ReaderInv
  <1>2. LookSeen' = [d \in Calls |-> Looking(call'[d])]
    BY DEF LookSeen, Looking
  <1>3. LookSeen = [d \in Calls |-> Looking(call[d])]
    BY DEF LookSeen
  <1> QED BY <1>1, <1>2, <1>3

LEMMA SaidOne ==
    ASSUME ReaderInv, NEW c \in Calls, NEW a, said' = [said EXCEPT ![c] = a]
    PROVE  SaidSeen' = [SaidSeen EXCEPT ![c] = Telling(a)]
  <1>1. said'[c] = a /\ \A d \in Calls \ {c} : said'[d] = said[d]
    BY DEF ReaderInv
  <1>2. SaidSeen' = [d \in Calls |-> Telling(said'[d])]
    BY DEF SaidSeen, Telling
  <1>3. SaidSeen = [d \in Calls |-> Telling(said[d])]
    BY DEF SaidSeen
  <1> QED BY <1>1, <1>2, <1>3

LEMMA SeenStays ==
    /\ UNCHANGED call => UNCHANGED LookSeen
    /\ UNCHANGED said => UNCHANGED SaidSeen
  BY DEF LookSeen, SaidSeen

LEMMA IdleIsClosed == Looking(Idle) = Shown!Idle
  BY DEF Looking, Idle, Working, Shown!Idle

\* What the cache, the calendar and the publisher do is no step of the promise.
LEMMA ErrorIsGiveUp ==
    ASSUME ReaderInv, NEW c \in Calls, Respond(c, Error), UNCHANGED xml
    PROVE  Shown!GiveUp(c)
  <1>1. LookSeen' = [LookSeen EXCEPT ![c] = Shown!Idle]
    <2>1. LookSeen' = [LookSeen EXCEPT ![c] = Looking(Idle)]
      BY LookOne DEF Respond
    <2> QED BY <2>1, IdleIsClosed
  <1>2. SaidSeen' = [SaidSeen EXCEPT ![c] = Shown!Error]
    <2>1. SaidSeen' = [SaidSeen EXCEPT ![c] = Telling(Error)]
      BY SaidOne DEF Respond
    <2>2. Telling(Error) = Shown!Error
      BY DEF Telling, Error, Shown!Error
    <2> QED BY <2>1, <2>2
  <1> QED BY <1>1, <1>2 DEF Shown!GiveUp

LEMMA ArriveStutters ==
    ASSUME ReaderInv, NEW c \in Calls, NEW q \in Requests, Arrive(c, q)
    PROVE  Shown!GiveUp(c) \/ UNCHANGED Shown!vars
  <1>1. CASE Respond(c, Error)
    BY <1>1, ErrorIsGiveUp DEF Arrive, fedlex
  <1>2. CASE ~Respond(c, Error)
    <2> DEFINE w == [pc |-> "quota", req |-> q, since |-> day]
    <2>1. call' = [call EXCEPT ![c] = w] /\ UNCHANGED <<said, xml>>
      BY <1>2 DEF Arrive, fedlex
    <2>2. LookSeen' = [LookSeen EXCEPT ![c] = Looking(w)]
      BY <2>1, LookOne
    <2>3. Looking(w) = Looking(Idle)
      BY DEF Looking, Idle, Working
    <2>4. LookSeen[c] = Looking(Idle)
      BY DEF LookSeen, Arrive
    <2>5. UNCHANGED LookSeen
      BY <2>2, <2>3, <2>4 DEF LookSeen
    <2> QED BY <2>1, <2>5, SeenStays DEF Shown!vars
  <1> QED BY <1>1, <1>2

LEMMA DispatchAsks ==
    ASSUME ReaderInv, NEW c \in Calls, Dispatch(c)
    PROVE  \/ Shown!GiveUp(c)
           \/ \E l \in Langs, d \in Days : Shown!Ask(c, l, <<d>>)
           \/ \E l \in Langs, d \in Days, e \in Days : Shown!Ask(c, l, <<d, e>>)
  <1> DEFINE q     == call[c].req
             stamp == IF q.asOf = NotGiven THEN default ELSE q.asOf
  <1>1. call[c] \in Askings
    BY KindsOfTasks DEF Dispatch, ReaderInv
  <1>2. q \in Requests
    BY <1>1 DEF Askings
  <1>3. CASE Respond(c, Error)
    BY <1>3, ErrorIsGiveUp DEF Dispatch, fedlex
  <1>4. CASE ~Respond(c, Error)
    <2> DEFINE days == DaysOf(q, stamp)
               w == [pc |-> "query", req |-> q, since |-> call[c].since,
                     days |-> days, got |-> <<>>, pick |-> NoVersion]
    <2>1. q.asOf # Malformed /\ Dispatchable(q) /\ call' = [call EXCEPT ![c] = w] /\ UNCHANGED <<said, xml>>
      BY <1>4 DEF Dispatch, fedlex
    <2>2. stamp \in Days /\ q.lang \in Langs
      BY <1>2, <2>1, RequestsAssumption DEF NotGiven, Malformed, ReaderInv
    <2>3. \/ days = <<stamp>>
          \/ days = <<stamp, q.other>> /\ q.other \in Days
      BY <2>1 DEF DaysOf, Dispatchable
    <2>4. LookSeen' = [LookSeen EXCEPT ![c] = Looking(w)]
      <3> HIDE DEF w
      <3> QED BY <2>1, LookOne
    <2>5. Looking(w) = [open |-> TRUE, lang |-> q.lang, days |-> days, found |-> <<>>]
      <3> HIDE DEF days
      <3> QED BY DEF Looking, Working
    <2>6. LookSeen[c] = Shown!Idle
      <3>1. call[c].pc \notin Working
        BY <1>1 DEF Askings, Working
      <3> QED BY <3>1 DEF LookSeen, Looking, Shown!Idle
    <2>7. Shown!Ask(c, q.lang, days)
      <3> HIDE DEF days, w
      <3> QED BY <2>1, <2>4, <2>5, <2>6, SeenStays DEF Shown!Ask
    <2> QED BY <2>2, <2>3, <2>7
  <1> QED BY <1>3, <1>4

LEMMA ResolveLooks ==
    ASSUME ReaderInv, NEW c \in Calls, ResolveConsolidationAt(c)
    PROVE  Shown!GiveUp(c) \/ Shown!Look(c)
  <1>1. call[c] \in Workings /\ Progress(call[c]) /\ call[c].pc = "query"
    BY KindsOfTasks DEF ResolveConsolidationAt, ReaderInv, Working
  <1>2. CASE Respond(c, Error)
    BY <1>2, ErrorIsGiveUp DEF ResolveConsolidationAt, fedlex
  <1>3. CASE ~Respond(c, Error)
    <2> DEFINE old == call[c]
               d == old.days[Len(old.got) + 1]
    <2>1. PICK v \in Resolved(old.req.lang, d) :
              call' = [call EXCEPT ![c].pc = "lookup", ![c].pick = v]
      BY <1>3 DEF ResolveConsolidationAt
    <2>2. UNCHANGED <<said, xml>>
      BY <1>3 DEF ResolveConsolidationAt, fedlex
    <2> DEFINE w == [old EXCEPT !.pc = "lookup", !.pick = v]
    <2>3. call' = [call EXCEPT ![c] = w]
      BY <2>1 DEF ReaderInv
    <2>4. LookSeen' = [LookSeen EXCEPT ![c] = Looking(w)]
      <3> HIDE DEF w
      <3> QED BY <2>3, LookOne
    <2>5. LookSeen[c] = [open |-> TRUE, lang |-> old.req.lang, days |-> old.days, found |-> old.got]
      BY <1>1 DEF LookSeen, Looking, Working
    <2>6. Looking(w) = [open |-> TRUE, lang |-> old.req.lang, days |-> old.days, found |-> Append(old.got, v)]
      BY <1>1 DEF Looking, Working, Workings
    <2>7. v \in Shown!Latest(old.req.lang, d)
      <3>1. \A o \in Versions, l \in Langs : <<o, l>> \in xml => o \in published
        BY DEF ReaderInv
      <3>2. old.req.lang \in Langs
        BY <1>1, RequestsAssumption DEF Workings
      <3> HIDE DEF d
      <3>3. Rows(old.req.lang, d) = {o \in Versions : <<o, old.req.lang>> \in xml /\ From[o] <= d}
        BY <3>1, <3>2 DEF Rows, ReaderInv
      <3> QED BY <3>3 DEF Resolved, Shown!Latest
    <2>8. Len(old.got) < Len(old.days)
      BY <1>1 DEF Progress
    <2>9. /\ LookSeen[c].open /\ LookSeen[c].lang = old.req.lang
          /\ LookSeen[c].days = old.days /\ LookSeen[c].found = old.got
      BY <2>5
    <2>10. [LookSeen[c] EXCEPT !.found = Append(old.got, v)] = Looking(w)
      <3>1. PICK yes : yes = TRUE
        BY Zenon
      <3> HIDE DEF w
      <3>2. /\ LookSeen[c] = [open |-> yes, lang |-> old.req.lang, days |-> old.days, found |-> old.got]
            /\ Looking(w) = [open |-> yes, lang |-> old.req.lang, days |-> old.days,
                             found |-> Append(old.got, v)]
        BY <2>5, <2>6, <3>1, Zenon
      <3> QED BY <3>2
    <2>11. UNCHANGED <<xml, SaidSeen>>
      BY <2>2, SeenStays
    <2> HIDE DEF w, d
    <2>12. v \in Shown!Latest(LookSeen[c].lang, LookSeen[c].days[Len(LookSeen[c].found) + 1])
      BY <2>7, <2>9 DEF d
    <2>13. LookSeen' = [LookSeen EXCEPT ![c].found = Append(@, v)]
      BY <2>4, <2>9, <2>10
    <2>14. Len(LookSeen[c].found) < Len(LookSeen[c].days)
      BY <2>8, <2>9
    <2> QED BY <2>9, <2>11, <2>12, <2>13, <2>14, Zenon DEF Shown!Look
  <1> QED BY <1>2, <1>3

\* A document received: the next version is looked for, or the answer told.
LEMMA ReceivedTells ==
    ASSUME ReaderInv, NEW c \in Calls, call[c].pc \in {"lookup", "download"},
           Received(c), UNCHANGED xml
    PROVE  Shown!GiveUp(c) \/ Shown!Tell(c) \/ UNCHANGED Shown!vars
  <1> DEFINE old == call[c]
             got == Append(old.got, old.pick)
  <1>1. old \in Workings /\ Progress(old)
    BY KindsOfTasks DEF ReaderInv, Working
  <1>2. got \in Seq(Versions) /\ Len(got) = Len(old.got) + 1
    BY <1>1 DEF Workings, Progress
  <1>3. LookSeen[c] = [open |-> TRUE, lang |-> old.req.lang, days |-> old.days, found |-> got]
    BY DEF LookSeen, Looking, Working
  <1>4. CASE Len(got) < Len(old.days)
    <2> DEFINE w == [old EXCEPT !.pc = "query", !.got = got, !.pick = NoVersion]
    <2>1. call' = [call EXCEPT ![c] = w] /\ UNCHANGED said
      BY <1>4 DEF Received, ReaderInv
    <2>2. Looking(w) = [open |-> TRUE, lang |-> old.req.lang, days |-> old.days, found |-> got]
      BY <1>1 DEF Looking, Working, Workings
    <2> HIDE DEF w
    <2>3. LookSeen' = [LookSeen EXCEPT ![c] = Looking(w)]
      BY <2>1, LookOne
    <2>4. UNCHANGED LookSeen
      BY <1>3, <2>2, <2>3 DEF LookSeen
    <2> QED BY <2>1, <2>4, SeenStays DEF Shown!vars
  <1>5. CASE ~(Len(got) < Len(old.days)) /\ ~Respond(c, Error)
    <2> DEFINE r == [kind |-> "text", days |-> old.days, lang |-> old.req.lang, found |-> got,
                     asked |-> old.req.asOf, since |-> old.since]
    <2>1. Respond(c, r)
      BY <1>5 DEF Received
    <2>2. Telling(r) = [kind |-> "text", days |-> old.days, lang |-> old.req.lang, found |-> got]
      BY DEF Telling
    <2> HIDE DEF r
    <2>3. SaidSeen' = [SaidSeen EXCEPT ![c] = Telling(r)]
      BY <2>1, SaidOne DEF Respond
    <2>4. LookSeen' = [LookSeen EXCEPT ![c] = Shown!Idle]
      BY <2>1, LookOne, IdleIsClosed DEF Respond
    <2>5. Len(got) = Len(old.days)
      BY <1>1, <1>2, <1>5 DEF Progress, Workings
    <2> HIDE DEF got
    <2> QED BY <1>3, <2>2, <2>3, <2>4, <2>5 DEF Shown!Tell
  <1>6. CASE Respond(c, Error)
    BY <1>6, ErrorIsGiveUp
  <1> QED BY <1>4, <1>5, <1>6

LEMMA LookupStutters ==
    ASSUME ReaderInv, NEW c \in Calls, Lookup(c)
    PROVE  Shown!GiveUp(c) \/ Shown!Tell(c) \/ UNCHANGED Shown!vars
  <1>1. CASE Received(c)
    BY <1>1, ReceivedTells DEF Lookup, fedlex
  <1>2. CASE call' = [call EXCEPT ![c].pc = "download"] /\ UNCHANGED said
    <2> DEFINE w == [call[c] EXCEPT !.pc = "download"]
    <2>1. call[c] \in Workings /\ call[c].pc = "lookup"
      BY KindsOfTasks DEF Lookup, ReaderInv, Working
    <2>2. call' = [call EXCEPT ![c] = w]
      BY <1>2 DEF ReaderInv
    <2>3. Looking(w) = Looking(call[c])
      BY <2>1 DEF Looking, Working, Workings
    <2> HIDE DEF w
    <2>4. LookSeen' = [LookSeen EXCEPT ![c] = Looking(w)]
      BY <2>2, LookOne
    <2>5. UNCHANGED LookSeen
      BY <2>3, <2>4 DEF LookSeen
    <2> QED BY <1>2, <2>5, SeenStays DEF Shown!vars, Lookup, fedlex
  <1> QED BY <1>1, <1>2 DEF Lookup

LEMMA PromiseInitially == Init => Shown!Init
  <1> SUFFICES ASSUME Init PROVE Shown!Init
    OBVIOUS
  <1>1. LookSeen = [c \in Calls |-> Shown!Idle]
    BY IdleIsClosed DEF Init, LookSeen
  <1>2. SaidSeen = [c \in Calls |-> Shown!Error]
    BY DEF Init, SaidSeen, Telling, Error, Shown!Error
  <1> QED BY <1>1, <1>2 DEF Init, Shown!Init

LEMMA PromiseStep == ReaderInv /\ [Next]_vars => [Shown!Next]_(Shown!vars)
  <1> SUFFICES ASSUME ReaderInv, [Next]_vars PROVE Shown!Next \/ UNCHANGED Shown!vars
    OBVIOUS
  <1>1. ASSUME NEW c \in Calls, NEW q \in Requests, Arrive(c, q) PROVE Shown!Next \/ UNCHANGED Shown!vars
    BY <1>1, ArriveStutters DEF Shown!Next
  <1>2. ASSUME NEW c \in Calls, Denied(c) PROVE Shown!Next
    BY <1>2, ErrorIsGiveUp DEF Denied, fedlex, Shown!Next
  <1>3. ASSUME NEW c \in Calls, Dispatch(c) PROVE Shown!Next
    BY <1>3, DispatchAsks DEF Shown!Next
  <1>4. ASSUME NEW c \in Calls, ResolveConsolidationAt(c) PROVE Shown!Next
    BY <1>4, ResolveLooks DEF Shown!Next
  <1>5. ASSUME NEW c \in Calls, Lookup(c) PROVE Shown!Next \/ UNCHANGED Shown!vars
    BY <1>5, LookupStutters DEF Shown!Next
  <1>6. ASSUME NEW c \in Calls, Download(c) PROVE Shown!Next \/ UNCHANGED Shown!vars
    <2>1. CASE Respond(c, Error)
      BY <1>6, <2>1, ErrorIsGiveUp DEF Download, fedlex, Shown!Next
    <2>2. CASE Received(c)
      BY <1>6, <2>2, ReceivedTells DEF Download, fedlex, Shown!Next
    <2> QED BY <1>6, <2>1, <2>2 DEF Download
  <1>7. ASSUME NEW c \in Calls, HangUp(c) PROVE Shown!Next
    BY <1>7, ErrorIsGiveUp DEF HangUp, fedlex, Shown!Next
  <1>8. ASSUME Evict \/ Midnight PROVE UNCHANGED Shown!vars
    BY <1>8, SeenStays DEF Evict, Midnight, fedlex, Shown!vars
  <1>9. ASSUME NEW v \in Versions, PublishVersion(v) PROVE UNCHANGED Shown!vars
    BY <1>9, SeenStays DEF PublishVersion, Shown!vars
  <1>10. ASSUME NEW v \in Versions, NEW l \in Langs, PublishXml(v, l) PROVE Shown!Next
    BY <1>10, SeenStays DEF PublishXml, Shown!Next, Shown!Publish
  <1>11. ASSUME Restart PROVE Shown!Next
    <2>1. LookSeen' = [c \in Calls |-> Shown!Idle]
      BY <1>11, IdleIsClosed DEF Restart, LookSeen, Looking
    <2> QED BY <1>11, <2>1, SeenStays DEF Restart, fedlex, Shown!Next, Shown!GiveUpAll
  <1>12. ASSUME UNCHANGED vars PROVE UNCHANGED Shown!vars
    BY <1>12, SeenStays DEF vars, fedlex, Shown!vars
  <1> QED BY <1>1, <1>2, <1>3, <1>4, <1>5, <1>6, <1>7, <1>8, <1>9, <1>10, <1>11, <1>12 DEF Next, CallStep

LEMMA ShownIsPromise ==
    /\ Shown!Init => Promise!Init
    /\ [Shown!Next]_(Shown!vars) => [Promise!Next]_(Promise!vars)
  BY DEF Shown!Init, Shown!Next, Shown!vars, Shown!Publish, Shown!Ask, Shown!Look, Shown!Tell, Shown!GiveUp,
         Shown!GiveUpAll, Shown!Latest, Shown!Idle, Shown!Error, LookSeen, SaidSeen, Looking, Telling,
         Promise!Init, Promise!Next, Promise!vars, Promise!Publish, Promise!Ask, Promise!Look, Promise!Tell,
         Promise!GiveUp, Promise!GiveUpAll, Promise!Latest, Promise!Idle, Promise!Error

(* Whatever the cache holds, Fedlex publishes and other calls do in between:  *)
(* each text told was the latest version readable at some moment of the call  *)
(* (fetch_akn_document, compare_versions).                                    *)
THEOREM KeepsPromiseAlways == Spec => KeepsPromise
  <1>1. Init => Promise!Init
    BY PromiseInitially, ShownIsPromise
  <1>2. ReaderInv /\ [Next]_vars => [Promise!Next]_(Promise!vars)
    BY PromiseStep, ShownIsPromise
  <1> QED BY <1>1, <1>2, ReaderAlways, PTL DEF Spec, KeepsPromise, Promise!Spec

-----------------------------------------------------------------------------
(* LoadIsPaid.  What a handler may still send to Fedlex, as a set of tokens:  *)
(* a query and a download for each version it has not received, without the   *)
(* query where the version is resolved.                                       *)
Left(w) ==
    IF w.pc \notin Working THEN 0
    ELSE 2 * (Len(w.days) - Len(w.got)) - (IF w.pc = "query" THEN 0 ELSE 1)
Token(c, i) == <<c, i>>
Tokens == {t \in Calls \X (1..4) : t[2] <= Left(call[t[1]])}

Budget ==
    /\ paid \in Nat /\ load \in Nat
    /\ IsFiniteSet(Tokens)
    /\ load + Cardinality(Tokens) <= 4 * paid

LEMMA TokenOf ==
    \A c \in Calls, i \in 1..4 : Token(c, i) \in Tokens <=> i <= Left(call[c])
  BY DEF Token, Tokens

LEMMA TokensAre ==
    \A t \in Tokens : \E c \in Calls, i \in 1..4 : t = Token(c, i)
  BY DEF Token, Tokens

LEMMA LeftBounds ==
    ASSUME NEW w \in Tasks
    PROVE  Left(w) \in 0..4 /\ (w.pc \in Working => Left(w) > 0)
  <1>1. CASE w.pc \notin Working
    BY <1>1 DEF Left
  <1>2. CASE w.pc \in Working
    <2>1. w \in Workings /\ Progress(w)
      BY <1>2, KindsOfTasks
    <2> DEFINE n == Len(w.days)
               g == Len(w.got)
    <2>2. n \in {1, 2} /\ g \in Nat /\ g < n
      BY <2>1 DEF Workings, Progress
    <2>3. Left(w) = 2 * (n - g) - (IF w.pc = "query" THEN 0 ELSE 1)
      BY <1>2, Zenon DEF Left
    <2> HIDE DEF n, g
    <2> QED BY <2>2, <2>3
  <1> QED BY <1>1, <1>2

LEMMA LeftAtWork ==
    ASSUME NEW w, w.pc \in Working
    PROVE  Left(w) = 2 * (Len(w.days) - Len(w.got)) - (IF w.pc = "query" THEN 0 ELSE 1)
  BY Zenon DEF Left

\* The tokens of the others stay, those of a handler are as many as it has left.
LEMMA TokensOfOne ==
    ASSUME ReaderInv, NEW c \in Calls, NEW w, call' = [call EXCEPT ![c] = w], Left(w) \in 0..4
    PROVE  /\ Left(w) <= Left(call[c]) => Tokens' \subseteq Tokens
           /\ Left(w) < Left(call[c]) =>
                  Token(c, Left(call[c])) \in Tokens /\ Tokens' \subseteq Tokens \ {Token(c, Left(call[c]))}
           /\ Tokens' \subseteq Tokens \cup {Token(c, 1), Token(c, 2), Token(c, 3), Token(c, 4)}
  <1>1. call'[c] = w /\ \A d \in Calls \ {c} : call'[d] = call[d]
    BY DEF ReaderInv
  <1>2. Tokens' = {t \in Calls \X (1..4) : t[2] <= Left(call'[t[1]])}
    BY DEF Tokens, Left
  <1>3. \A d \in Calls : call[d] \in Tasks
    BY DEF ReaderInv
  <1>4. \A d \in Calls : Left(call[d]) \in 0..4
    BY <1>3, LeftBounds
  <1>5. ASSUME NEW d \in Calls, NEW i \in 1..4
        PROVE  Token(d, i) \in Tokens' <=> i <= Left(call'[d])
    BY <1>2 DEF Token
  <1>6. ASSUME NEW t \in Tokens'
        PROVE  \E d \in Calls, i \in 1..4 : t = Token(d, i)
    BY <1>2 DEF Token
  <1>7. ASSUME Left(w) <= Left(call[c]) PROVE Tokens' \subseteq Tokens
    <2> SUFFICES ASSUME NEW t \in Tokens' PROVE t \in Tokens
      OBVIOUS
    <2>1. PICK d \in Calls, i \in 1..4 : t = Token(d, i)
      BY <1>6
    <2>2. i <= Left(call'[d])
      BY <1>5, <2>1
    <2>3. i <= Left(call[d])
      BY <1>1, <1>4, <1>7, <2>2
    <2> QED BY <2>1, <2>3, TokenOf
  <1>8. ASSUME Left(w) < Left(call[c])
        PROVE  Token(c, Left(call[c])) \in Tokens /\ Tokens' \subseteq Tokens \ {Token(c, Left(call[c]))}
    <2> DEFINE n == Left(call[c])
    <2>1. n \in 0..4
      BY <1>4
    <2>2. Tokens' \subseteq Tokens
      BY <1>4, <1>7, <1>8
    <2> HIDE DEF n
    <2>3. n \in 1..4 /\ Left(w) < n
      BY <1>8, <2>1 DEF n
    <2>4. Token(c, n) \notin Tokens'
      BY <1>1, <1>5, <2>3
    <2>5. Token(c, n) \in Tokens
      BY <2>3, TokenOf DEF n
    <2> QED BY <2>2, <2>4, <2>5 DEF n
  <1>9. Tokens' \subseteq Tokens \cup {Token(c, 1), Token(c, 2), Token(c, 3), Token(c, 4)}
    <2> SUFFICES ASSUME NEW t \in Tokens'
                 PROVE  t \in Tokens \/ t \in {Token(c, 1), Token(c, 2), Token(c, 3), Token(c, 4)}
      OBVIOUS
    <2>1. PICK d \in Calls, i \in 1..4 : t = Token(d, i)
      BY <1>6
    <2>2. CASE d = c
      BY <2>1, <2>2
    <2>3. CASE d # c
      BY <1>1, <1>5, <2>1, <2>3, TokenOf
    <2> QED BY <2>2, <2>3
  <1> QED BY <1>7, <1>8, <1>9

LEMMA Spares ==
    ASSUME Budget, UNCHANGED load, paid' \in Nat, paid <= paid', Tokens' \subseteq Tokens
    PROVE  Budget'
  <1> DEFINE new == Tokens'
  <1>1. IsFiniteSet(new) /\ Cardinality(new) <= Cardinality(Tokens)
    BY FS_Subset DEF Budget
  <1>2. Cardinality(new) \in Nat /\ Cardinality(Tokens) \in Nat
    BY <1>1, FS_CardinalityType DEF Budget
  <1> QED BY <1>1, <1>2 DEF Budget

LEMMA Spends ==
    ASSUME Budget, load' = load + 1, UNCHANGED paid,
           NEW t, t \in Tokens, Tokens' \subseteq Tokens \ {t}
    PROVE  Budget'
  <1> DEFINE new  == Tokens'
             rest == Tokens \ {t}
  <1>1. IsFiniteSet(rest) /\ Cardinality(rest) = Cardinality(Tokens) - 1
    BY FS_RemoveElement DEF Budget
  <1>2. IsFiniteSet(new) /\ Cardinality(new) <= Cardinality(rest)
    <2> HIDE DEF rest
    <2>1. new \in SUBSET rest
      BY DEF rest
    <2> QED BY <1>1, <2>1, FS_Subset
  <1>3. Cardinality(new) \in Nat /\ Cardinality(Tokens) \in Nat
    BY <1>2, FS_CardinalityType DEF Budget
  <1> QED BY <1>1, <1>2, <1>3 DEF Budget

LEMMA OneMore ==
    ASSUME NEW S, NEW t, IsFiniteSet(S)
    PROVE  IsFiniteSet(S \cup {t}) /\ Cardinality(S \cup {t}) \in Nat /\ Cardinality(S) \in Nat
           /\ Cardinality(S \cup {t}) <= Cardinality(S) + 1
  <1>1. IsFiniteSet(S \cup {t}) /\ Cardinality(S) \in Nat
    BY FS_AddElement, FS_CardinalityType
  <1>2. Cardinality(S \cup {t}) \in Nat
    BY <1>1, FS_CardinalityType
  <1> QED BY <1>1, <1>2, FS_AddElement

LEMMA Pays ==
    ASSUME Budget, UNCHANGED load, paid' = paid + 1,
           NEW a, NEW b, NEW c, NEW d, Tokens' \subseteq Tokens \cup {a, b, c, d}
    PROVE  Budget'
  <1> DEFINE new == Tokens'
             A == Tokens \cup {a}
             B == A \cup {b}
             C == B \cup {c}
             D == C \cup {d}
  <1>1. IsFiniteSet(Tokens) /\ Cardinality(Tokens) \in Nat
    BY FS_CardinalityType DEF Budget
  <1>2. IsFiniteSet(A) /\ Cardinality(A) \in Nat /\ Cardinality(A) <= Cardinality(Tokens) + 1
    BY <1>1, OneMore
  <1>3. IsFiniteSet(B) /\ Cardinality(B) \in Nat /\ Cardinality(B) <= Cardinality(A) + 1
    <2> HIDE DEF A
    <2> QED BY <1>2, OneMore
  <1>4. IsFiniteSet(C) /\ Cardinality(C) \in Nat /\ Cardinality(C) <= Cardinality(B) + 1
    <2> HIDE DEF B
    <2> QED BY <1>3, OneMore
  <1>5. IsFiniteSet(D) /\ Cardinality(D) \in Nat /\ Cardinality(D) <= Cardinality(C) + 1
    <2> HIDE DEF C
    <2> QED BY <1>4, OneMore
  <1>6. new \in SUBSET D
    OBVIOUS
  <1>7. IsFiniteSet(new) /\ Cardinality(new) <= Cardinality(D) /\ Cardinality(new) \in Nat
    <2> HIDE DEF D, new
    <2>1. IsFiniteSet(new) /\ Cardinality(new) <= Cardinality(D)
      BY <1>5, <1>6, FS_Subset
    <2> QED BY <2>1, FS_CardinalityType
  <1>8. Cardinality(new) <= Cardinality(Tokens) + 4
    <2> HIDE DEF A, B, C, D, new
    <2> QED BY <1>1, <1>2, <1>3, <1>4, <1>5, <1>7
  <1> QED BY <1>1, <1>7, <1>8 DEF Budget

LEMMA BudgetInitially == Init => Budget
  <1> SUFFICES ASSUME Init PROVE Budget
    OBVIOUS
  <1>1. \A c \in Calls : Left(call[c]) = 0
    BY DEF Init, Left, Idle, Working
  <1>2. Tokens = {}
    BY <1>1 DEF Tokens
  <1>3. IsFiniteSet(Tokens) /\ Cardinality(Tokens) = 0
    BY <1>2, FS_EmptySet
  <1> QED BY <1>3 DEF Init, Budget

\* A handler moves on: what it sends is taken from what it has left, and what
\* it has left grows only as it pays.
LEMMA MovesWithin ==
    ASSUME ReaderInv, Budget, NEW c \in Calls, NEW w \in Tasks, call' = [call EXCEPT ![c] = w],
           \/ UNCHANGED <<load, paid>> /\ Left(w) <= Left(call[c])
           \/ load' = load + 1 /\ UNCHANGED paid /\ Left(w) < Left(call[c])
           \/ UNCHANGED load /\ paid' = paid + 1
    PROVE  Budget'
  <1>1. Left(w) \in 0..4
    BY LeftBounds
  <1>2. CASE UNCHANGED <<load, paid>> /\ Left(w) <= Left(call[c])
    <2>1. Left(w) <= Left(call[c]) => Tokens' \subseteq Tokens
      BY <1>1, TokensOfOne
    <2> QED BY <1>2, <2>1, Spares DEF Budget
  <1>3. CASE load' = load + 1 /\ UNCHANGED paid /\ Left(w) < Left(call[c])
    <2> DEFINE t == Token(c, Left(call[c]))
    <2>1. Left(w) < Left(call[c]) => t \in Tokens /\ Tokens' \subseteq Tokens \ {t}
      BY <1>1, TokensOfOne
    <2> HIDE DEF t
    <2> QED BY <1>3, <2>1, Spends
  <1>4. CASE UNCHANGED load /\ paid' = paid + 1
    <2>1. Tokens' \subseteq Tokens \cup {Token(c, 1), Token(c, 2), Token(c, 3), Token(c, 4)}
      BY <1>1, TokensOfOne
    <2> QED BY <1>4, <2>1, Pays
  <1> QED BY <1>2, <1>3, <1>4

LEMMA IdleHasNone == Idle \in Tasks /\ Left(Idle) = 0
  BY DEF Tasks, Left, Idle, Working

\* A handler that answers, or is dropped, needs nothing any more.
LEMMA AnswersWithin ==
    ASSUME ReaderInv, Budget, NEW c \in Calls, NEW r, Respond(c, r),
           \/ UNCHANGED <<load, paid>>
           \/ load' = load + 1 /\ UNCHANGED paid /\ call[c].pc \in Working
           \/ UNCHANGED load /\ paid' = paid + 1
    PROVE  Budget'
  <1>1. Left(call[c]) \in 0..4 /\ (call[c].pc \in Working => Left(call[c]) > 0)
    BY LeftBounds DEF ReaderInv
  <1>2. call' = [call EXCEPT ![c] = Idle]
    BY DEF Respond
  <1>3. \/ UNCHANGED <<load, paid>> /\ Left(Idle) <= Left(call[c])
        \/ load' = load + 1 /\ UNCHANGED paid /\ Left(Idle) < Left(call[c])
        \/ UNCHANGED load /\ paid' = paid + 1
    BY <1>1, IdleHasNone
  <1> QED BY <1>2, <1>3, IdleHasNone, MovesWithin

LEMMA ReceivesWithin ==
    ASSUME ReaderInv, Budget, NEW c \in Calls, call[c].pc \in {"lookup", "download"}, Received(c),
           UNCHANGED paid, UNCHANGED load \/ load' = load + 1
    PROVE  Budget'
  <1> DEFINE old == call[c]
             got == Append(old.got, old.pick)
  <1>1. old \in Workings /\ Progress(old)
    BY KindsOfTasks DEF ReaderInv, Working
  <1>2. /\ Len(got) = Len(old.got) + 1 /\ Len(old.got) \in Nat /\ Len(old.days) \in Nat
        /\ got \in Seq(Versions)
    BY <1>1 DEF Workings, Progress
  <1>3. CASE Len(got) < Len(old.days)
    <2> DEFINE w == [old EXCEPT !.pc = "query", !.got = got, !.pick = NoVersion]
    <2>1. call' = [call EXCEPT ![c] = w]
      BY <1>3 DEF Received, ReaderInv
    <2>2. /\ w \in Workings /\ Progress(w)
          /\ w.days = old.days /\ w.got = got /\ w.pc = "query"
      <3> HIDE DEF got
      <3> QED BY <1>1, <1>2, <1>3 DEF Workings, Working, Progress
    <2> HIDE DEF w, got
    <2>3. PICK n \in Nat, g \in Nat : n = Len(old.days) /\ g = Len(old.got)
      BY <1>2, Zenon
    <2>4. Left(w) = 2 * (n - (g + 1)) /\ Left(old) = 2 * (n - g) - 1
      <3>1. Left(w) = 2 * (n - (g + 1))
        <4>1. w.pc \in Working /\ Len(w.days) = n /\ Len(w.got) = g + 1
          BY <1>2, <2>2, <2>3 DEF Working
        <4>2. Left(w) = 2 * (n - (g + 1)) - 0
          BY <2>2, <4>1, LeftAtWork
        <4> QED BY <4>2
      <3>2. Left(old) = 2 * (n - g) - 1
        <4>1. old.pc \in Working /\ old.pc # "query"
          BY DEF Working
        <4> QED BY <2>3, <4>1, LeftAtWork
      <3> QED BY <3>1, <3>2
    <2>5. Left(w) < Left(old) /\ Left(w) <= Left(old)
      BY <2>4
    <2>6. w \in Tasks
      BY <2>2 DEF Tasks
    <2> QED BY <2>1, <2>5, <2>6, MovesWithin
  <1>4. CASE ~(Len(got) < Len(old.days))
    <2>1. PICK r : Respond(c, r)
      BY <1>4 DEF Received
    <2> QED BY <2>1, AnswersWithin DEF Working
  <1> QED BY <1>3, <1>4

LEMMA BudgetStep == ReaderInv /\ ReaderInv' /\ Budget /\ [Next]_vars => Budget'
  <1> SUFFICES ASSUME ReaderInv, ReaderInv', Budget, [Next]_vars PROVE Budget'
    OBVIOUS
  <1>0. \A c \in Calls : call[c] \in Tasks /\ call'[c] \in Tasks
    BY DEF ReaderInv
  <1>1. ASSUME NEW c \in Calls, NEW q \in Requests, Arrive(c, q) PROVE Budget'
    <2>1. UNCHANGED <<load, paid>>
      BY <1>1 DEF Arrive
    <2>2. CASE Respond(c, Error)
      BY <2>1, <2>2, AnswersWithin
    <2>3. CASE ~Respond(c, Error)
      <3> DEFINE w == [pc |-> "quota", req |-> q, since |-> day]
      <3>1. call' = [call EXCEPT ![c] = w]
        BY <1>1, <2>3 DEF Arrive
      <3>2. Left(w) = 0
        BY DEF Left, Working
      <3>3. w = call'[c]
        BY <3>1 DEF ReaderInv
      <3> HIDE DEF w
      <3>4. w \in Tasks /\ Left(w) <= Left(call[c])
        BY <1>0, <3>2, <3>3, LeftBounds
      <3> QED BY <2>1, <3>1, <3>4, MovesWithin
    <2> QED BY <2>2, <2>3
  <1>2. ASSUME NEW c \in Calls, Denied(c) \/ HangUp(c) PROVE Budget'
    BY <1>2, AnswersWithin DEF Denied, HangUp
  <1>3. ASSUME NEW c \in Calls, Dispatch(c) PROVE Budget'
    <2>1. UNCHANGED load /\ paid' = paid + 1
      BY <1>3 DEF Dispatch
    <2>2. CASE Respond(c, Error)
      BY <2>1, <2>2, AnswersWithin
    <2>3. CASE ~Respond(c, Error)
      <3>1. PICK w : call' = [call EXCEPT ![c] = w]
        BY <1>3, <2>3 DEF Dispatch
      <3>2. w \in Tasks
        BY <1>0, <3>1 DEF ReaderInv
      <3> QED BY <2>1, <3>1, <3>2, MovesWithin
    <2> QED BY <2>2, <2>3
  <1>4. ASSUME NEW c \in Calls, ResolveConsolidationAt(c) PROVE Budget'
    <2>1. load' = load + 1 /\ UNCHANGED paid /\ call[c].pc = "query"
      BY <1>4 DEF ResolveConsolidationAt
    <2>2. CASE Respond(c, Error)
      BY <2>1, <2>2, AnswersWithin DEF Working
    <2>3. CASE ~Respond(c, Error)
      <3>1. PICK v : call' = [call EXCEPT ![c].pc = "lookup", ![c].pick = v]
        BY <1>4, <2>3 DEF ResolveConsolidationAt
      <3> DEFINE w == [call[c] EXCEPT !.pc = "lookup", !.pick = v]
      <3>2. call' = [call EXCEPT ![c] = w]
        BY <3>1 DEF ReaderInv
      <3>3. call[c] \in Workings
        BY <1>0, <2>1, KindsOfTasks DEF Working
      <3>4. w.pc = "lookup" /\ w.days = call[c].days /\ w.got = call[c].got
        BY <3>3 DEF Workings
      <3>5. w = call'[c]
        BY <3>2 DEF ReaderInv
      <3> HIDE DEF w
      <3>6. Len(call[c].days) \in Nat /\ Len(call[c].got) \in Nat
        BY <3>3 DEF Workings
      <3>7. Left(w) < Left(call[c])
        <4>1. PICK n \in Nat, g \in Nat : n = Len(call[c].days) /\ g = Len(call[c].got)
          BY <3>6, Zenon
        <4>2. Left(w) = 2 * (n - g) - 1
          <5>1. w.pc \in Working /\ w.pc # "query"
            BY <3>4 DEF Working
          <5> QED BY <3>4, <4>1, <5>1, LeftAtWork
        <4>3. Left(call[c]) = 2 * (n - g)
          <5>1. call[c].pc \in Working
            BY <2>1 DEF Working
          <5>2. Left(call[c]) = 2 * (n - g) - 0
            BY <2>1, <4>1, <5>1, LeftAtWork
          <5> QED BY <5>2
        <4> QED BY <4>2, <4>3
      <3>8. w \in Tasks
        BY <1>0, <3>5
      <3> QED BY <2>1, <3>2, <3>7, <3>8, MovesWithin
    <2> QED BY <2>2, <2>3
  <1>5. ASSUME NEW c \in Calls, Lookup(c) PROVE Budget'
    <2>1. UNCHANGED <<load, paid>> /\ call[c].pc = "lookup"
      BY <1>5 DEF Lookup
    <2>2. CASE Received(c)
      BY <2>1, <2>2, ReceivesWithin
    <2>3. CASE call' = [call EXCEPT ![c].pc = "download"]
      <3> DEFINE w == [call[c] EXCEPT !.pc = "download"]
      <3>1. call' = [call EXCEPT ![c] = w]
        BY <2>3 DEF ReaderInv
      <3>2. call[c] \in Workings
        BY <1>0, <2>1, KindsOfTasks DEF Working
      <3>3. w.pc = "download" /\ w.days = call[c].days /\ w.got = call[c].got
        BY <3>2 DEF Workings
      <3>4. w = call'[c]
        BY <3>1 DEF ReaderInv
      <3> HIDE DEF w
      <3>5. Left(w) = Left(call[c])
        BY <2>1, <3>3 DEF Left, Working
      <3>6. w \in Tasks /\ Left(w) <= Left(call[c])
        BY <1>0, <3>4, <3>5, LeftBounds
      <3> QED BY <2>1, <3>1, <3>6, MovesWithin
    <2> QED BY <1>5, <2>2, <2>3 DEF Lookup
  <1>6. ASSUME NEW c \in Calls, Download(c) PROVE Budget'
    <2>1. load' = load + 1 /\ UNCHANGED paid /\ call[c].pc = "download"
      BY <1>6 DEF Download
    <2>2. CASE Respond(c, Error)
      BY <2>1, <2>2, AnswersWithin DEF Working
    <2>3. CASE Received(c)
      BY <2>1, <2>3, ReceivesWithin
    <2> QED BY <1>6, <2>2, <2>3 DEF Download
  <1>7. ASSUME UNCHANGED <<call, load, paid>> PROVE Budget'
    BY <1>7 DEF Budget, Tokens
  <1>8. ASSUME Restart PROVE Budget'
    <2>1. \A c \in Calls : Left(call'[c]) = 0
      BY <1>8, IdleHasNone DEF Restart
    <2>2. Tokens' = {t \in Calls \X (1..4) : t[2] <= Left(call'[t[1]])}
      BY DEF Tokens, Left
    <2>3. Tokens' \subseteq Tokens
      BY <2>1, <2>2
    <2> QED BY <1>8, <2>3, Spares DEF Budget, Restart
  <1>9. ASSUME \/ Evict \/ Midnight
               \/ \E v \in Versions : PublishVersion(v)
               \/ \E v \in Versions, l \in Langs : PublishXml(v, l)
               \/ UNCHANGED vars
        PROVE  UNCHANGED <<call, load, paid>>
    BY <1>9 DEF Evict, Midnight, PublishVersion, PublishXml, vars
  <1> QED BY <1>1, <1>2, <1>3, <1>4, <1>5, <1>6, <1>7, <1>8, <1>9 DEF Next, CallStep

(* Only paid work reaches Fedlex, and a paid call asks for at most two        *)
(* versions, each with a query and a download, however many handlers run,     *)
(* are dropped or start over (handle: the quota comes before any work).       *)
THEOREM LoadIsPaidAlways == Spec => []LoadIsPaid
  <1>1. Budget => LoadIsPaid
    <2> SUFFICES ASSUME Budget PROVE LoadIsPaid
      OBVIOUS
    <2>1. Cardinality(Tokens) \in Nat
      BY FS_CardinalityType DEF Budget
    <2> QED BY <2>1 DEF Budget, LoadIsPaid
  <1>2. Spec => []Budget
    BY ReaderAlways, BudgetInitially, BudgetStep, PTL DEF Spec
  <1> QED BY <1>1, <1>2, PTL
=============================================================================
