----------------------------- MODULE Server_proofs -----------------------------
(***************************************************************************)
(* Proofs about Server, for any number of requests, connections, callers.  *)
(***************************************************************************)
EXTENDS ServerSafety, TLAPS

Records ==
    [place : Places, route : AllRoutes, id : Identities \cup {None}, good : BOOLEAN,
     found : BOOLEAN, conn : Conns \cup {None}, on : Requests \cup {None},
     gone : BOOLEAN, done : BOOLEAN, status : Statuses]

TxPlaces == {"tx", "blocked", "statements", "commit"}

\* What IInv says of one request alone: what it has, what it passed, what it is told.
Has(x) ==
    /\ x.conn # None <=> x.place \in Holding
    /\ x.on # None <=> x.place = "blocked"
Passed(x) ==
    /\ x.good \/ x.route \in HasInput
    /\ x.place \in {"want identity", "identity"} =>
          x.id # None /\ x.route \in ByActor \cup {"Me"} /\ ~x.found
    /\ x.place = "token" => NeedsToken(x.route) /\ ~x.found
    /\ x.place = "input" =>
          /\ x.route \in HasInput
          /\ NeedsToken(x.route) => x.id # None
          /\ x.route \in ByActor => x.found
    /\ x.place \in {"want query", "query"} =>
          /\ x.good /\ x.route \notin ByActor \cup {"CreateUser"}
          /\ NeedsToken(x.route) => x.id # None
    /\ x.place = "want tx" =>
          /\ x.good /\ x.id # None
          /\ x.found \/ x.route = "CreateUser"
    /\ x.place \in {"want tx"} \cup TxPlaces => x.route \in ByActor \cup {"CreateUser"}
    /\ x.place \in TxPlaces \/ x.done =>
          /\ x.id # None /\ x.good
          /\ x.found \/ x.route = "CreateUser"
Told(x) ==
    /\ x.done => x.place = "answered"
    /\ x.place = "answered" =>
          /\ x.status = 401 <=> NeedsToken(x.route) /\ x.id = None
          /\ ~x.good /\ (x.found \/ (x.route = "CreateUser" /\ x.id # None)) => x.status = 400
          /\ x.status = 400 => ~x.good
          /\ x.status # 500 =>
                (x.done <=> x.status \in Successes /\ x.route \in ByActor \cup {"CreateUser"})

\* What it says of several.
Shared ==
    /\ idle \subseteq Conns /\ registered \subseteq Identities
    /\ server \in {"serving", "closing", "gone"}
    /\ \A c \in Conns : c \in idle <=> \A r \in Requests : rq[r].conn # c
    /\ \A r, s \in Requests : r # s /\ rq[r].conn # None => rq[r].conn # rq[s].conn
    /\ \A r \in Requests :
          rq[r].on # None => rq[r].on # r /\ rq[rq[r].on].place \in TxPlaces

Split ==
    /\ rq \in [Requests -> Records]
    /\ \A r \in Requests : Has(rq[r]) /\ Passed(rq[r]) /\ Told(rq[r])
    /\ Shared

LEMMA IInvSplits == IInv => Split
<1> SUFFICES ASSUME IInv PROVE Split
    OBVIOUS
<1>1. rq \in [Requests -> Records]
    BY DEF IInv, TypeOK, Records
<1>2. ASSUME NEW r \in Requests PROVE Has(rq[r])
    BY DEF IInv, ConnectionsAreReturned, Has
<1>3. ASSUME NEW r \in Requests PROVE Passed(rq[r])
    BY DEF IInv, OnlyCallersReachServices, Passed, TxPlaces
<1>4. ASSUME NEW r \in Requests PROVE Told(rq[r])
    BY ZenonT(30) DEF IInv, EarliestFaultIsAnswered, AnswerTellsCommit, Told
<1>5. Shared
    <2>1. \A c \in Conns : c \in idle <=> \A r \in Requests : rq[r].conn # c
        BY NoneIsNone DEF IInv, ConnectionsAreReturned, Busy
    <2> QED BY <2>1 DEF IInv, TypeOK, ConnectionsAreReturned, NobodyHoldsAndWaits, Shared, TxPlaces
<1> QED BY <1>1, <1>2, <1>3, <1>4, <1>5 DEF Split

LEMMA SplitJoins == Split => IInv
<1> SUFFICES ASSUME Split PROVE IInv
    OBVIOUS
<1>1. TypeOK
    BY DEF Split, Shared, TypeOK, Records
<1>2. ConnectionsAreReturned
    <2>1. idle = Conns \ Busy
        BY NoneIsNone DEF Split, Shared, Busy
    <2> QED BY <2>1 DEF Split, Shared, Has, ConnectionsAreReturned
<1>3. NobodyHoldsAndWaits
    <2>1. ASSUME NEW r \in Requests, rq[r].place \in Waiting
          PROVE  rq[r].conn = None /\ \A s \in Requests : rq[s].on # r
        BY <2>1, NoneIsNone DEF Split, Shared, Has, Waiting, Holding, TxPlaces
    <2> QED BY <2>1 DEF Split, Shared, TxPlaces, NobodyHoldsAndWaits
<1>4. EarliestFaultIsAnswered /\ AnswerTellsCommit
    BY DEF Split, Told, EarliestFaultIsAnswered, AnswerTellsCommit
<1>5. OnlyCallersReachServices
    BY DEF Split, Passed, TxPlaces, OnlyCallersReachServices
<1>6. ASSUME NEW r \in Requests
      PROVE  /\ rq[r].on # None <=> rq[r].place = "blocked"
             /\ rq[r].done => rq[r].place = "answered"
    BY DEF Split, Has, Told
<1>7. \A r \in Requests : Passed(rq[r])
    BY DEF Split
<1> QED BY <1>1, <1>2, <1>3, <1>4, <1>5, <1>6, <1>7 DEF IInv, Passed, TxPlaces

LEMMA SplitJoinsNext == Split' => IInv'
BY SplitJoins, PTL

-----------------------------------------------------------------------------
(* One request changes, and perhaps those that wait for it are woken. *)

LEMMA OneRequest ==
    ASSUME Split, NEW r \in Requests, NEW x \in Records, Has(x), Passed(x), Told(x),
           rq' \in [Requests -> Records], rq'[r] = x,
           \A q \in Requests : q # r =>
                rq'[q] = rq[q] \/ (rq[q].on = r /\ rq'[q] = Wake(rq[q])),
           x.place \in TxPlaces \/ \A q \in Requests : q # r => rq'[q].on # r,
           x.on # None => x.on # r /\ rq[x.on].place \in TxPlaces,
           \/ x.conn = rq[r].conn /\ idle' = idle
           \/ x.conn = None /\ idle' = idle \cup ({rq[r].conn} \ {None})
           \/ rq[r].conn = None /\ x.conn \in idle /\ idle' = idle \ {x.conn},
           registered' \subseteq Identities, server' \in {"serving", "closing", "gone"}
    PROVE  IInv'
<1>1. ASSUME NEW q \in Requests, q # r
      PROVE  /\ Has(rq'[q]) /\ Passed(rq'[q]) /\ Told(rq'[q])
             /\ rq'[q].conn = rq[q].conn
             /\ rq'[q].on # None => rq'[q].on = rq[q].on
             /\ rq[q].place \in TxPlaces => rq'[q].place \in TxPlaces
    <2>1. rq[q] \in Records /\ Has(rq[q]) /\ Passed(rq[q]) /\ Told(rq[q])
        BY DEF Split
    <2>2. CASE rq'[q] = rq[q]
        BY <2>1, <2>2
    <2>3. CASE rq[q].on = r /\ rq'[q] = Wake(rq[q])
        <3>1. rq[q].place = "blocked"
            BY <2>1, <2>3, NoneIsNone DEF Has
        <3>2. /\ rq'[q].place = "statements" /\ rq'[q].on = None
              /\ rq'[q].conn = rq[q].conn /\ rq'[q].route = rq[q].route
              /\ rq'[q].id = rq[q].id /\ rq'[q].good = rq[q].good
              /\ rq'[q].found = rq[q].found /\ rq'[q].done = rq[q].done
            BY <2>1, <2>3 DEF Wake, Records
        <3>3. Has(rq'[q])
            BY <2>1, <3>1, <3>2 DEF Has, Holding
        <3>4. Passed(rq'[q])
            BY <2>1, <3>1, <3>2 DEF Passed, TxPlaces
        <3>5. Told(rq'[q])
            BY <2>1, <3>1, <3>2 DEF Told
        <3> QED BY <3>2, <3>3, <3>4, <3>5 DEF TxPlaces
    <2> QED BY <1>1, <2>2, <2>3
<1>2. \A q \in Requests : Has(rq'[q]) /\ Passed(rq'[q]) /\ Told(rq'[q])
    BY <1>1
<1>3. \A q \in Requests : q # r => rq'[q].conn = rq[q].conn
    BY <1>1
<1>4. /\ idle \subseteq Conns
      /\ \A c \in Conns : c \in idle <=> \A q \in Requests : rq[q].conn # c
      /\ \A q, s \in Requests : q # s /\ rq[q].conn # None => rq[q].conn # rq[s].conn
      /\ \A q \in Requests :
            rq[q].on # None => rq[q].on # q /\ rq[rq[q].on].place \in TxPlaces
      /\ \A q \in Requests : rq[q] \in Records
    BY DEF Split, Shared
<1>5. /\ x.conn \in Conns \cup {None} /\ x.on \in Requests \cup {None}
      /\ \A q \in Requests : rq[q].conn \in Conns \cup {None} /\ rq[q].on \in Requests \cup {None}
      /\ None \notin Conns /\ None \notin Requests
    BY <1>4, NoneIsNone DEF Records
<1>6. idle' \subseteq Conns
    BY <1>4, <1>5
<1>7. \A c \in Conns : c \in idle' <=> \A q \in Requests : rq'[q].conn # c
    <2> SUFFICES ASSUME NEW c \in Conns
                 PROVE  c \in idle' <=> x.conn # c /\ \A q \in Requests : q # r => rq[q].conn # c
        BY <1>3
    <2>1. c \in idle <=> rq[r].conn # c /\ \A q \in Requests : q # r => rq[q].conn # c
        BY <1>4
    <2>2. CASE x.conn = rq[r].conn /\ idle' = idle
        BY <2>1, <2>2
    <2>3. CASE x.conn = None /\ idle' = idle \cup ({rq[r].conn} \ {None})
        <3>1. c # None
            BY <1>5
        <3>2. CASE rq[r].conn = c
            <4>1. \A q \in Requests : q # r => rq[q].conn # c
                BY <1>4, <3>1, <3>2
            <4> QED BY <2>3, <3>1, <3>2, <4>1
        <3>3. CASE rq[r].conn # c
            BY <2>1, <2>3, <3>1, <3>3
        <3> QED BY <3>2, <3>3
    <2>4. CASE rq[r].conn = None /\ x.conn \in idle /\ idle' = idle \ {x.conn}
        BY <2>1, <2>4, <1>5
    <2> QED BY <2>2, <2>3, <2>4
<1>8. \A q, s \in Requests : q # s /\ rq'[q].conn # None => rq'[q].conn # rq'[s].conn
    <2>1. ASSUME NEW q \in Requests, q # r, x.conn # None PROVE x.conn # rq[q].conn
        BY <1>4, <1>5, <2>1
    <2> QED BY <1>3, <1>4, <2>1
<1>9. \A q \in Requests :
          rq'[q].on # None => rq'[q].on # q /\ rq'[rq'[q].on].place \in TxPlaces
    <2> SUFFICES ASSUME NEW q \in Requests, rq'[q].on # None
                 PROVE  rq'[q].on # q /\ rq'[rq'[q].on].place \in TxPlaces
        OBVIOUS
    <2>1. CASE q = r
        BY <1>1, <1>5, <2>1
    <2>2. CASE q # r
        <3>1. /\ rq'[q].on = rq[q].on /\ rq[rq[q].on].place \in TxPlaces /\ rq[q].on \in Requests
             /\ rq[q].on # q
            BY <1>1, <1>4, <1>5, <2>2
        <3>2. CASE rq[q].on = r
            BY <2>2, <3>1, <3>2
        <3>3. CASE rq[q].on # r
            BY <1>1, <3>1, <3>3
        <3> QED BY <3>2, <3>3
    <2> QED BY <2>1, <2>2
<1>10. Split'
    BY <1>2, <1>6, <1>7, <1>8, <1>9 DEF Split, Shared
<1> QED BY <1>10, SplitJoinsNext

\* A handler ends with a status.
LEMMA EndStep ==
    ASSUME Split, NEW r \in Requests, NEW status \in Statuses, NEW done \in BOOLEAN,
           rq[r].place # "free", End(r, status, done),
           status = 401 <=> NeedsToken(rq[r].route) /\ rq[r].id = None,
           ~rq[r].good /\ (rq[r].found \/ (rq[r].route = "CreateUser" /\ rq[r].id # None))
              => status = 400,
           status = 400 => ~rq[r].good,
           status # 500 =>
              (done <=> status \in Successes /\ rq[r].route \in ByActor \cup {"CreateUser"}),
           done => rq[r].place \in TxPlaces,
           registered' \subseteq Identities, UNCHANGED server
    PROVE  IInv'
<1> DEFINE x == Answered(rq[r], status, done)
<1>1. /\ rq[r] \in Records /\ Has(rq[r]) /\ Passed(rq[r]) /\ rq[r].on # r
      /\ \A q \in Requests : rq[q] \in Records
    BY NoneIsNone DEF Split, Shared, Has, TxPlaces
<1>2. /\ x \in Records /\ x.place = "answered" /\ x.status = status /\ x.done = done
      /\ x.on = None /\ x.conn = None /\ x.route = rq[r].route /\ x.id = rq[r].id
      /\ x.good = rq[r].good /\ x.found = rq[r].found
    <2>1. "answered" \in Places
        BY DEF Places
    <2>2. x \in Records
        BY <1>1, <2>1, ZenonT(60) DEF Records, Answered
    <2>3. /\ x.place = "answered" /\ x.status = status /\ x.done = done
          /\ x.on = None /\ x.conn = None
        BY <1>1, SMT DEF Records, Answered
    <2>4. x.route = rq[r].route /\ x.id = rq[r].id /\ x.good = rq[r].good /\ x.found = rq[r].found
        BY <1>1, SMT DEF Records, Answered
    <2> QED BY <2>2, <2>3, <2>4
<1>3. /\ rq'[r] = x
      /\ \A q \in Requests : q # r =>
            rq'[q] = rq[q] \/ (rq[q].on = r /\ rq'[q] = Wake(rq[q]))
      /\ \A q \in Requests : q # r => rq'[q].on # r
      /\ rq' \in [Requests -> Records]
    <2>1. ASSUME NEW q \in Requests PROVE Wake(rq[q]) \in Records /\ Wake(rq[q]).on = None
        <3>1. "statements" \in Places /\ rq[q] \in Records
            BY <1>1 DEF Places, Holding
        <3> QED BY <3>1, ZenonT(30) DEF Records, Wake
    <2> HIDE DEF x
    <2>2. rq' = [q \in Requests |-> IF q = r THEN x ELSE IF rq[q].on = r THEN Wake(rq[q])
                                                    ELSE rq[q]]
        BY DEF End, WithAnswer, x
    <2> QED BY <1>1, <1>2, <2>1, <2>2, NoneIsNone
<1> HIDE DEF x
<1>4. Has(x)
    BY <1>2 DEF Has, Holding
<1>5. Passed(x)
    BY <1>1, <1>2, ZenonT(30) DEF Passed, TxPlaces
<1>6. Told(x)
    BY <1>2 DEF Told
<1>7. idle' = idle \cup ({rq[r].conn} \ {None}) /\ server' \in {"serving", "closing", "gone"}
    BY DEF End, Split, Shared
<1> QED BY <1>2, <1>3, <1>4, <1>5, <1>6, <1>7, OneRequest

\* A handler goes on, with the connection it has, without one, or with an idle one.
LEMMA GoOn ==
    ASSUME Split, NEW r \in Requests, NEW x \in Records, Has(x), Passed(x), Told(x),
           rq' = [rq EXCEPT ![r] = x], x.place \in TxPlaces \/ rq[r].place \notin TxPlaces,
           x.on # None => x.on # r /\ rq[x.on].place \in TxPlaces,
           \/ x.conn = rq[r].conn /\ idle' = idle
           \/ x.conn = None /\ idle' = idle \cup ({rq[r].conn} \ {None})
           \/ rq[r].conn = None /\ x.conn \in idle /\ idle' = idle \ {x.conn},
           UNCHANGED <<registered, server>>
    PROVE  IInv'
<1>1. rq' \in [Requests -> Records] /\ rq'[r] = x /\ \A q \in Requests : q # r => rq'[q] = rq[q]
    BY DEF Split
<1>2. x.place \in TxPlaces \/ \A q \in Requests : q # r => rq'[q].on # r
    BY <1>1, NoneIsNone DEF Split, Shared
<1>3. registered' \subseteq Identities /\ server' \in {"serving", "closing", "gone"}
    BY DEF Split, Shared
<1> QED BY <1>1, <1>2, <1>3, OneRequest

LEMMA FreshRequest ==
    /\ NoRequest \in Records /\ NoRequest.place = "free" /\ NoRequest.conn = None
    /\ NoRequest.on = None /\ ~NoRequest.done /\ ~NoRequest.found
    /\ Has(NoRequest) /\ Passed(NoRequest) /\ Told(NoRequest)
<1>1. /\ NoRequest.place = "free" /\ NoRequest.conn = None /\ NoRequest.on = None
      /\ ~NoRequest.done /\ ~NoRequest.found /\ NoRequest.good
    BY DEF NoRequest
<1>2. NoRequest \in Records
    BY DEF NoRequest, Records, Places, Statuses, AllRoutes, Public
<1>3. Has(NoRequest) /\ Told(NoRequest) /\ Passed(NoRequest)
    BY <1>1 DEF Has, Told, Passed, Holding, TxPlaces
<1> QED BY <1>1, <1>2, <1>3

LEMMA ArriveInv == ASSUME Split, NEW r \in Requests, Arrive(r) PROVE IInv'
<1>1. PICK route \in Routes, id \in Identities \cup {None}, good \in BOOLEAN :
          /\ NeedsToken(route) \/ id = None
          /\ route \in HasInput \/ good
          /\ rq' = [rq EXCEPT ![r] =
                [NoRequest EXCEPT !.place = FirstPlace(route), !.route = route, !.id = id,
                                  !.good = good]]
    BY DEF Arrive
<1> DEFINE x == [NoRequest EXCEPT !.place = FirstPlace(route), !.route = route, !.id = id,
                                  !.good = good]
<1>2. /\ x.place = FirstPlace(route) /\ x.route = route /\ x.id = id /\ x.good = good
      /\ ~x.found /\ x.conn = None /\ x.on = None /\ ~x.done /\ x \in Records
    <2>1. FirstPlace(route) \in Places /\ route \in AllRoutes
        BY RoutesAreKnown DEF FirstPlace, Places, Waiting
    <2> QED BY <2>1, FreshRequest DEF Records
<1>3. rq' = [rq EXCEPT ![r] = x]
    BY <1>1
<1> HIDE DEF x
<1>4. Has(x) /\ Told(x)
    BY <1>2 DEF Has, Told, Holding, FirstPlace
<1>5. Passed(x)
    BY <1>1, <1>2, RoutesAreKnown
       DEF FirstPlace, Passed, TxPlaces, NeedsToken, Public, HasInput, ByActor, AllRoutes
<1>6. rq[r].conn = None /\ rq[r].place \notin TxPlaces /\ UNCHANGED <<idle, registered, server>>
    BY DEF Arrive, Split, Has, Holding, TxPlaces
<1> QED BY <1>2, <1>3, <1>4, <1>5, <1>6, GoOn

LEMMA ReturnInv == ASSUME Split, NEW r \in Requests, Return(r) PROVE IInv'
<1>1. rq[r].conn = None /\ rq[r].place \notin TxPlaces
    BY DEF Return, Split, Has, Holding, TxPlaces
<1> QED BY <1>1, FreshRequest, GoOn DEF Return

LEMMA CancelInv == ASSUME Split, NEW r \in Requests, Cancel(r) PROVE IInv'
<1> DEFINE x == [rq[r] EXCEPT !.gone = TRUE]
<1>1. /\ rq \in [Requests -> Records] /\ Has(rq[r]) /\ Passed(rq[r]) /\ Told(rq[r])
      /\ rq[r].on # None => rq[r].on # r /\ rq[rq[r].on].place \in TxPlaces
    BY DEF Split, Shared
<1>2. /\ x \in Records /\ x.place = rq[r].place /\ x.route = rq[r].route /\ x.id = rq[r].id
      /\ x.good = rq[r].good /\ x.found = rq[r].found /\ x.conn = rq[r].conn
      /\ x.on = rq[r].on /\ x.done = rq[r].done /\ x.status = rq[r].status
    BY <1>1 DEF Records
<1>3. rq' = [rq EXCEPT ![r] = x]
    BY <1>1 DEF Cancel
<1> HIDE DEF x
<1>4. Has(x)
    BY <1>1, <1>2 DEF Has
<1>5. Passed(x)
    BY <1>1, <1>2 DEF Passed
<1>6. Told(x)
    BY <1>1, <1>2 DEF Told
<1> QED BY <1>1, <1>2, <1>3, <1>4, <1>5, <1>6, GoOn DEF Cancel

\* A handler only moves on.
LEMMA GotoStep ==
    ASSUME Split, NEW r \in Requests, NEW place \in Places, Goto(r, place),
           ~rq[r].done, place \notin {"answered", "blocked"}, rq[r].place # "blocked",
           rq[r].place \in Holding <=> place \in Holding,
           place \in TxPlaces \/ rq[r].place \notin TxPlaces,
           \A x \in Records :
               /\ x.place = place /\ x.route = rq[r].route /\ x.id = rq[r].id
               /\ x.good = rq[r].good /\ x.found = rq[r].found /\ ~x.done
               => Passed(x),
           UNCHANGED <<idle, registered, server>>
    PROVE  IInv'
<1> DEFINE x == [rq[r] EXCEPT !.place = place]
<1>1. rq[r] \in Records /\ Has(rq[r]) /\ rq \in [Requests -> Records]
    BY DEF Split
<1>2. /\ x \in Records /\ x.place = place /\ x.route = rq[r].route /\ x.id = rq[r].id
      /\ x.good = rq[r].good /\ x.found = rq[r].found /\ x.conn = rq[r].conn
      /\ x.on = rq[r].on /\ x.done = rq[r].done
    BY <1>1 DEF Records
<1>3. rq' = [rq EXCEPT ![r] = x]
    BY <1>1 DEF Goto
<1> HIDE DEF x
<1>4. Has(x) /\ x.on = None
    BY <1>1, <1>2 DEF Has
<1>5. Told(x)
    BY <1>2 DEF Told
<1>6. Passed(x)
    BY <1>2
<1> QED BY <1>2, <1>3, <1>4, <1>5, <1>6, GoOn

\* A handler answers without a commit.
LEMMA AnswerStep ==
    ASSUME Split, NEW r \in Requests, NEW status \in Statuses, Answer(r, status),
           rq[r].place # "free",
           status = 401 <=> NeedsToken(rq[r].route) /\ rq[r].id = None,
           ~rq[r].good /\ (rq[r].found \/ (rq[r].route = "CreateUser" /\ rq[r].id # None))
              => status = 400,
           status = 400 => ~rq[r].good,
           status \in Successes => rq[r].route \notin ByActor \cup {"CreateUser"},
           UNCHANGED <<registered, server>>
    PROVE  IInv'
<1> SUFFICES ASSUME NEW done \in BOOLEAN, done = FALSE PROVE IInv'
    OBVIOUS
<1>1. End(r, status, done) /\ registered' \subseteq Identities /\ UNCHANGED server
    BY DEF Answer, Split, Shared
<1>2. /\ status # 500 =>
            (done <=> status \in Successes /\ rq[r].route \in ByActor \cup {"CreateUser"})
      /\ done => rq[r].place \in TxPlaces
    OBVIOUS
<1> QED BY <1>1, <1>2, EndStep

-----------------------------------------------------------------------------
(* The actions. *)

LEMMA ExtractAndValidateJWTInv ==
    ASSUME Split, NEW r \in Requests, ExtractAndValidateJWT(r) PROVE IInv'
<1>1. /\ rq[r].place = "token" /\ NeedsToken(rq[r].route)
      /\ ~rq[r].found /\ ~rq[r].done /\ rq[r].route \in AllRoutes
      /\ rq[r].good \/ rq[r].route \in HasInput
    <2>1. /\ Passed(rq[r]) /\ Told(rq[r]) /\ rq[r].place = "token" /\ rq[r] \in Records
        BY DEF ExtractAndValidateJWT, Split
    <2> QED BY <2>1 DEF Passed, Told, Records
<1>2. CASE rq[r].id = None /\ Answer(r, 401)
    BY <1>1, <1>2, AnswerStep DEF ExtractAndValidateJWT, Statuses, Successes
<1>3. CASE /\ rq[r].id # None /\ rq[r].route = "CreateUser" /\ UNCHANGED idle
           /\ Goto(r, "input")
    <2>1. /\ "input" \in Places /\ "input" \notin Holding
          /\ "token" \notin Holding /\ "token" \notin TxPlaces
        BY DEF Places, Holding, TxPlaces
    <2>2. ASSUME NEW x \in Records, x.place = "input", x.route = rq[r].route,
                 x.id = rq[r].id, ~x.done
          PROVE  Passed(x)
        BY <1>3, <2>2 DEF Passed, HasInput, ByActor, TxPlaces
    <2> QED BY <1>1, <1>3, <2>1, <2>2, GotoStep DEF ExtractAndValidateJWT
<1>4. CASE /\ rq[r].id # None /\ rq[r].route # "CreateUser" /\ UNCHANGED idle
           /\ Goto(r, "want identity")
    <2>1. /\ "want identity" \in Places /\ "want identity" \notin Holding
          /\ "token" \notin Holding /\ "token" \notin TxPlaces
        BY DEF Places, Holding, TxPlaces, Waiting
    <2>2. rq[r].route \in ByActor \cup {"Me"}
        BY <1>1, <1>4 DEF NeedsToken, AllRoutes
    <2>3. ASSUME NEW x \in Records, x.place = "want identity", x.route = rq[r].route,
                 x.id = rq[r].id, x.good = rq[r].good, x.found = rq[r].found, ~x.done
          PROVE  Passed(x)
        BY <1>1, <1>4, <2>2, <2>3 DEF Passed, TxPlaces
    <2> QED BY <1>1, <1>4, <2>1, <2>3, GotoStep DEF ExtractAndValidateJWT
<1> QED BY <1>2, <1>3, <1>4 DEF ExtractAndValidateJWT

LEMMA ReadInputInv == ASSUME Split, NEW r \in Requests, ReadInput(r) PROVE IInv'
<1>1. /\ Passed(rq[r]) /\ Told(rq[r]) /\ rq[r].place = "input" /\ ~rq[r].done
      /\ rq[r].route \in AllRoutes /\ rq[r].route \in HasInput
      /\ NeedsToken(rq[r].route) => rq[r].id # None
      /\ rq[r].route \in ByActor => rq[r].found
      /\ UNCHANGED <<registered, server>> /\ rq[r].place # "free"
    BY ZenonT(30) DEF ReadInput, Split, Passed, Told, Records
<1>2. CASE ~rq[r].good /\ Answer(r, 400)
    <2>1. 400 \in Statuses /\ 400 \notin Successes
        BY DEF Statuses, Successes
    <2> QED BY <1>1, <1>2, <2>1, AnswerStep
<1>3. CASE rq[r].good /\ Answer(r, 403)
    <2>1. 403 \in Statuses /\ 403 \notin Successes
        BY DEF Statuses, Successes
    <2> QED BY <1>1, <1>3, <2>1, AnswerStep
<1>4. /\ {"want query", "want tx"} \subseteq Places
      /\ "want query" \notin Holding /\ "want tx" \notin Holding
      /\ "input" \notin Holding /\ "input" \notin TxPlaces
    BY DEF Places, Holding, TxPlaces, Waiting
<1>5. CASE rq[r].good /\ rq[r].route = "GetUser" /\ UNCHANGED idle /\ Goto(r, "want query")
    <2>1. ASSUME NEW x \in Records, x.place = "want query", x.route = rq[r].route,
                 x.id = rq[r].id, x.good = rq[r].good, x.found = rq[r].found, ~x.done
          PROVE  Passed(x)
        BY <1>1, <1>5, <2>1 DEF Passed, TxPlaces, ByActor
    <2>2. /\ "want query" \in Places /\ "want query" \notin {"answered", "blocked"}
          /\ rq[r].place # "blocked" /\ rq[r].place \notin TxPlaces
          /\ rq[r].place \in Holding <=> "want query" \in Holding
          /\ UNCHANGED <<idle, registered, server>> /\ Goto(r, "want query") /\ ~rq[r].done
        BY <1>1, <1>4, <1>5
    <2> QED BY <2>1, <2>2, GotoStep
<1>6. CASE rq[r].good /\ rq[r].route # "GetUser" /\ UNCHANGED idle /\ Goto(r, "want tx")
    <2>1. /\ rq[r].route \in ByActor \cup {"CreateUser"} /\ rq[r].id # None
          /\ rq[r].found \/ rq[r].route = "CreateUser"
        BY <1>1, <1>6 DEF HasInput, NeedsToken, Public, ByActor
    <2>2. ASSUME NEW x \in Records, x.place = "want tx", x.route = rq[r].route,
                 x.id = rq[r].id, x.good = rq[r].good, x.found = rq[r].found, ~x.done
          PROVE  Passed(x)
        BY <1>6, <2>1, <2>2 DEF Passed, TxPlaces
    <2>3. /\ "want tx" \in Places /\ "want tx" \notin {"answered", "blocked"}
          /\ rq[r].place # "blocked" /\ rq[r].place \notin TxPlaces
          /\ rq[r].place \in Holding <=> "want tx" \in Holding
          /\ UNCHANGED <<idle, registered, server>> /\ Goto(r, "want tx") /\ ~rq[r].done
        BY <1>1, <1>4, <1>6
    <2> QED BY <2>2, <2>3, GotoStep
<1> QED BY <1>2, <1>3, <1>5, <1>6 DEF ReadInput

LEMMA HealthzInv == ASSUME Split, NEW r \in Requests, Healthz(r) PROVE IInv'
<1>1. /\ rq[r].good /\ ~NeedsToken(rq[r].route) /\ rq[r].place # "free" /\ Answer(r, 200)
      /\ UNCHANGED <<registered, server>> /\ rq[r].route \notin ByActor \cup {"CreateUser"}
    BY DEF Healthz, Split, Passed, NeedsToken, Public, ByActor
<1>2. 200 \in Statuses
    BY DEF Statuses, Successes
<1> QED BY <1>1, <1>2, AnswerStep

\* Before its transaction or query a request with bad input is known by nobody.
LEMMA UnreadInput ==
    ASSUME Split, NEW r \in Requests, rq[r].place \in Waiting \cup Holding
    PROVE  /\ NeedsToken(rq[r].route) => rq[r].id # None
           /\ ~(~rq[r].good /\ (rq[r].found \/ (rq[r].route = "CreateUser" /\ rq[r].id # None)))
           /\ ~rq[r].done
           /\ rq[r].place \in TxPlaces => rq[r].route \in ByActor \cup {"CreateUser"}
           /\ rq[r].place = "query" => rq[r].route \notin ByActor \cup {"CreateUser"}
<1> DEFINE x == rq[r]
<1>1. Passed(x) /\ Told(x)
    BY DEF Split
<1>2. x.place \in {"want identity", "identity", "want query", "query", "want tx"} \cup TxPlaces
    BY DEF Waiting, Holding, TxPlaces
<1>3. "query" \notin TxPlaces /\ "answered" \notin TxPlaces
    BY DEF TxPlaces
<1> HIDE DEF x
<1>4. CASE x.place \in {"want identity", "identity"}
    <2>1. x.id # None /\ x.route # "CreateUser" /\ ~x.found /\ x.place \notin TxPlaces
        BY <1>1, <1>4 DEF Passed, TxPlaces, ByActor
    <2> QED BY <1>1, <1>4, <2>1 DEF Told, x
<1>5. CASE x.place \in {"want query", "query"}
    BY <1>1, <1>5 DEF Passed, Told, TxPlaces, x
<1>6. CASE x.place \in {"want tx"} \cup TxPlaces
    BY <1>1, <1>3, <1>6, ZenonT(30) DEF Passed, Told, x
<1> QED BY <1>2, <1>4, <1>5, <1>6

LEMMA AcquireInv == ASSUME Split, NEW r \in Requests, Acquire(r) PROVE IInv'
<1> DEFINE pl == CASE rq[r].place = "want identity" -> "identity"
                   [] rq[r].place = "want query"    -> "query"
                   [] OTHER                         -> "tx"
<1>1. PICK c \in idle : /\ idle' = idle \ {c}
                        /\ rq' = [rq EXCEPT ![r].conn = c, ![r].place = pl]
    BY DEF Acquire
<1> DEFINE x == [rq[r] EXCEPT !.conn = c, !.place = pl]
<1>2. /\ rq[r] \in Records /\ rq \in [Requests -> Records] /\ Has(rq[r]) /\ Passed(rq[r])
      /\ Told(rq[r]) /\ c \in Conns /\ c # None /\ rq[r].place \in Waiting
    BY NoneIsNone, ZenonT(30) DEF Split, Shared, Acquire, WantsConnection
<1>3. /\ rq[r].place = "want identity" => pl = "identity"
      /\ rq[r].place = "want query" => pl = "query"
      /\ rq[r].place = "want tx" => pl = "tx"
      /\ pl \in Places
    BY DEF Places, Holding
<1> HIDE DEF pl
<1>4. /\ x \in Records /\ x.place = pl /\ x.conn = c /\ x.route = rq[r].route
      /\ x.id = rq[r].id /\ x.good = rq[r].good /\ x.found = rq[r].found
      /\ x.on = rq[r].on /\ x.done = rq[r].done
    BY <1>2, <1>3 DEF Records
<1>5. rq' = [rq EXCEPT ![r] = x]
    BY <1>1, <1>2
<1> HIDE DEF x
<1>6. rq[r].conn = None /\ rq[r].on = None /\ ~rq[r].done /\ rq[r].place \notin TxPlaces
    BY <1>2 DEF Has, Told, Waiting, Holding, TxPlaces
<1>7. Has(x)
    BY <1>2, <1>3, <1>4, <1>6 DEF Has, Waiting, Holding
<1>8. Passed(x)
    BY <1>2, <1>3, <1>4, <1>6 DEF Passed, Waiting, TxPlaces
<1>9. Told(x)
    BY <1>2, <1>3, <1>4, <1>6 DEF Told, Waiting
<1> QED BY <1>1, <1>4, <1>5, <1>6, <1>7, <1>8, <1>9, GoOn DEF Acquire

LEMMA AcquireFailsInv == ASSUME Split, NEW r \in Requests, AcquireFails(r) PROVE IInv'
<1>1. /\ rq[r].place \in Waiting /\ Answer(r, Unavailable(r)) /\ UNCHANGED <<registered, server>>
      /\ Unavailable(r) \in {500, 503}
    BY DEF AcquireFails, WantsConnection, Unavailable
<1>2. rq[r].place # "free"
    BY <1>1 DEF Waiting
<1> QED BY <1>1, <1>2, UnreadInput, AnswerStep DEF Statuses, Successes

LEMMA SelectUserByIdentityInv ==
    ASSUME Split, NEW r \in Requests, SelectUserByIdentity(r) PROVE IInv'
<1>1. /\ rq[r] \in Records /\ rq \in [Requests -> Records] /\ Has(rq[r]) /\ Passed(rq[r])
      /\ Told(rq[r]) /\ rq[r].place = "identity" /\ UNCHANGED <<registered, server>>
    BY DEF Split, SelectUserByIdentity
<1>2. CASE \E status \in {403, 404, 500} : Answer(r, status)
    <2>1. PICK status \in {403, 404, 500} : Answer(r, status)
        BY <1>2
    <2> QED BY <1>1, <2>1, UnreadInput, AnswerStep DEF Statuses, Successes, Holding
<1>3. CASE /\ rq' = [rq EXCEPT ![r].conn = None, ![r].found = TRUE,
                        ![r].place = IF rq[r].route = "Me" THEN "want query" ELSE "input"]
           /\ idle' = idle \cup {rq[r].conn}
    <2> DEFINE pl == IF rq[r].route = "Me" THEN "want query" ELSE "input"
               x == [rq[r] EXCEPT !.conn = None, !.found = TRUE, !.place = pl]
    <2>1. /\ rq[r].route = "Me" => pl = "want query"
          /\ rq[r].route # "Me" => pl = "input"
          /\ pl \in Places
        BY DEF Places, Waiting
    <2>2. rq' = [rq EXCEPT ![r] = x]
        BY <1>1, <1>3
    <2> HIDE DEF pl
    <2>3. /\ x \in Records /\ x.place = pl /\ x.conn = None /\ x.route = rq[r].route
          /\ x.id = rq[r].id /\ x.good = rq[r].good /\ x.found
          /\ x.on = rq[r].on /\ x.done = rq[r].done
        BY <1>1, <2>1 DEF Records
    <2> HIDE DEF x
    <2>4. /\ rq[r].conn # None /\ rq[r].on = None /\ ~rq[r].done /\ rq[r].place \notin TxPlaces
          /\ rq[r].id # None /\ rq[r].route \in ByActor \cup {"Me"}
        BY <1>1 DEF Has, Passed, Told, Holding, TxPlaces
    <2>5. Has(x)
        BY <2>1, <2>3, <2>4 DEF Has, Holding
    <2>6. rq[r].route = "Me" => rq[r].good
        BY <1>1 DEF Passed, HasInput, ByActor
    <2>7. Passed(x)
        BY <2>1, <2>3, <2>4, <2>6 DEF Passed, TxPlaces, HasInput, ByActor
    <2>8. Told(x)
        BY <2>1, <2>3, <2>4 DEF Told
    <2>9. idle' = idle \cup ({rq[r].conn} \ {None})
        BY <1>3, <2>4
    <2> QED BY <1>1, <2>2, <2>3, <2>4, <2>5, <2>7, <2>8, <2>9, GoOn
<1> QED BY <1>2, <1>3, ZenonT(30) DEF SelectUserByIdentity

LEMMA QueryInv == ASSUME Split, NEW r \in Requests, Query(r) PROVE IInv'
<1>1. PICK status \in {200, 404, 500, 503} : Answer(r, status)
    BY DEF Query, Unavailable
<1>2. /\ rq[r].place = "query" /\ rq[r].place \in Waiting \cup Holding
      /\ UNCHANGED <<registered, server>> /\ status \in Statuses /\ status \notin {400, 401}
    BY <1>1 DEF Query, Holding, Statuses, Successes
<1>3. /\ NeedsToken(rq[r].route) => rq[r].id # None
      /\ ~(~rq[r].good /\ (rq[r].found \/ (rq[r].route = "CreateUser" /\ rq[r].id # None)))
      /\ rq[r].route \notin ByActor \cup {"CreateUser"}
    BY <1>2, UnreadInput
<1> QED BY <1>1, <1>2, <1>3, AnswerStep

LEMMA WaitInv == ASSUME Split, NEW r \in Requests, NEW s \in Requests, Wait(r, s) PROVE IInv'
<1> DEFINE x == [rq[r] EXCEPT !.place = "blocked", !.on = s]
<1>1. /\ rq[r] \in Records /\ rq \in [Requests -> Records] /\ Has(rq[r]) /\ Passed(rq[r])
      /\ Told(rq[r]) /\ rq[r].place = "tx" /\ s # r /\ s # None /\ rq[s].place \in TxPlaces
      /\ "blocked" \in Places
    BY NoneIsNone DEF Wait, Split, TxPlaces, Places, Holding
<1>2. /\ x \in Records /\ x.place = "blocked" /\ x.on = s /\ x.route = rq[r].route
      /\ x.id = rq[r].id /\ x.good = rq[r].good /\ x.found = rq[r].found
      /\ x.conn = rq[r].conn /\ x.done = rq[r].done
    BY <1>1 DEF Records
<1>3. rq' = [rq EXCEPT ![r] = x]
    BY <1>1 DEF Wait
<1> HIDE DEF x
<1>4. Has(x)
    BY <1>1, <1>2 DEF Has, Holding
<1>5. Passed(x) /\ x.place \in TxPlaces
    BY <1>1, <1>2 DEF Passed, TxPlaces
<1>6. Told(x)
    BY <1>1, <1>2 DEF Told
<1> QED BY <1>1, <1>2, <1>3, <1>4, <1>5, <1>6, GoOn DEF Wait

LEMMA StatementsInv == ASSUME Split, NEW r \in Requests, Statements(r) PROVE IInv'
<1>1. /\ rq[r].place \in {"tx", "blocked", "statements"} /\ rq[r].place \in TxPlaces
      /\ rq[r].place \in Waiting \cup Holding /\ rq[r].place # "free"
      /\ UNCHANGED <<registered, server>>
    BY DEF Statements, TxPlaces, Holding
<1>2. CASE \E status \in {403, 404, 409, 500} : Answer(r, status)
    <2>1. PICK status \in {403, 404, 409, 500} : Answer(r, status)
        BY <1>2
    <2>2. status \in Statuses /\ status \notin {400, 401} /\ status \notin Successes
        BY <2>1 DEF Statuses, Successes
    <2> QED BY <1>1, <2>1, <2>2, UnreadInput, AnswerStep
<1>3. CASE rq[r].place \in {"tx", "statements"} /\ Goto(r, "commit") /\ UNCHANGED idle
    <2>1. /\ "commit" \in Places /\ "commit" \in TxPlaces /\ "commit" \in Holding
          /\ rq[r].place \in Holding /\ rq[r].place # "blocked"
        BY <1>3 DEF Places, TxPlaces, Holding
    <2>2. Passed(rq[r]) /\ ~rq[r].done
        BY <1>1, UnreadInput DEF Split
    <2>3. ASSUME NEW x \in Records, x.place = "commit", x.route = rq[r].route,
                 x.id = rq[r].id, x.good = rq[r].good, x.found = rq[r].found, ~x.done
          PROVE  Passed(x)
        BY <1>1, <2>2, <2>3 DEF Passed, TxPlaces
    <2>4. UNCHANGED <<idle, registered, server>> /\ Goto(r, "commit")
        BY <1>1, <1>3
    <2> QED BY <2>1, <2>2, <2>3, <2>4, GotoStep
<1>4. \A status \in Refusals(rq[r].route) : status \in {403, 404, 409, 500}
    BY DEF Refusals
<1> QED BY <1>2, <1>3, <1>4 DEF Statements

LEMMA CommitInv == ASSUME Split, NEW r \in Requests, Commit(r) PROVE IInv'
<1>1. /\ rq[r].place = "commit" /\ rq[r].place \in TxPlaces /\ rq[r].place # "free"
      /\ rq[r].place \in Waiting \cup Holding /\ UNCHANGED server
    BY DEF Commit, TxPlaces, Holding
<1>2. /\ NeedsToken(rq[r].route) => rq[r].id # None
      /\ ~(~rq[r].good /\ (rq[r].found \/ (rq[r].route = "CreateUser" /\ rq[r].id # None)))
      /\ rq[r].route \in ByActor \cup {"CreateUser"}
    BY <1>1, UnreadInput
<1>3. rq[r].id \in Identities /\ registered \subseteq Identities
    BY <1>1 DEF Split, Shared, Passed, Records, TxPlaces
<1>4. registered' \subseteq Identities
    BY <1>3 DEF Commit, Committed
<1>5. Success(rq[r].route) \in Successes
    BY DEF Success, Successes
<1>6. /\ Successes \subseteq Statuses /\ 500 \in Statuses /\ 500 \notin Successes
      /\ 400 \notin Successes /\ 401 \notin Successes
    BY DEF Statuses, Successes
<1>7. CASE End(r, Success(rq[r].route), TRUE)
    <2> SUFFICES ASSUME NEW done \in BOOLEAN, done, done = TRUE,
                        NEW status \in Successes, status = Success(rq[r].route)
                 PROVE  IInv'
        BY <1>5
    <2>1. End(r, status, done)
        BY <1>7
    <2>2. status \in Statuses /\ status \notin {400, 401}
        BY DEF Statuses, Successes
    <2> QED BY <1>1, <1>2, <1>4, <2>1, <2>2, EndStep
<1>8. CASE \E done \in BOOLEAN : End(r, 500, done)
    <2>1. PICK done \in BOOLEAN : End(r, 500, done)
        BY <1>8
    <2> QED BY <1>1, <1>2, <1>4, <1>6, <2>1, EndStep
<1> QED BY <1>7, <1>8 DEF Commit, Answer

\* The process ends: no request, all connections back.
LEMMA EndedInv == ASSUME Split, Ended PROVE IInv'
<1>1. rq' \in [Requests -> Records] /\ \A r \in Requests : rq'[r] = NoRequest
    BY FreshRequest DEF Ended
<1>2. \A r \in Requests : Has(rq'[r]) /\ Passed(rq'[r]) /\ Told(rq'[r])
    BY <1>1, FreshRequest
<1>3. Shared'
    BY <1>1, FreshRequest, NoneIsNone DEF Ended, Split, Shared
<1> QED BY <1>1, <1>2, <1>3, SplitJoinsNext DEF Split

LEMMA SameRequests ==
    ASSUME Split, UNCHANGED <<rq, idle, registered>>, server' \in {"serving", "closing", "gone"}
    PROVE  IInv'
<1>1. Shared'
    BY DEF Split, Shared
<1>2. Split'
    BY <1>1 DEF Split
<1> QED BY <1>2, SplitJoinsNext

-----------------------------------------------------------------------------
(* Every state that the server reaches. *)

LEMMA InitInv == Init => IInv
<1> SUFFICES ASSUME Init PROVE IInv
    OBVIOUS
<1>1. rq \in [Requests -> Records] /\ \A r \in Requests : rq[r] = NoRequest
    BY FreshRequest DEF Init
<1>2. \A r \in Requests : Has(rq[r]) /\ Passed(rq[r]) /\ Told(rq[r])
    BY <1>1, FreshRequest
<1>3. Shared
    BY <1>1, FreshRequest, NoneIsNone DEF Init, Shared
<1> QED BY <1>1, <1>2, <1>3, SplitJoins DEF Split

LEMMA NextInv == IInv /\ [Next]_vars => IInv'
<1> SUFFICES ASSUME Split, [Next]_vars PROVE IInv'
    BY IInvSplits
<1>1. CASE UNCHANGED vars
    BY <1>1, SameRequests DEF vars, Split, Shared
<1>2. ASSUME NEW r \in Requests,
             \/ Arrive(r) \/ Return(r) \/ Cancel(r) \/ Step(r) \/ Acquire(r) \/ AcquireFails(r)
             \/ \E s \in Requests : Wait(r, s)
      PROVE  IInv'
    BY <1>2, ArriveInv, ReturnInv, CancelInv, ExtractAndValidateJWTInv, ReadInputInv, HealthzInv,
       SelectUserByIdentityInv, QueryInv, StatementsInv, CommitInv, AcquireInv, AcquireFailsInv,
       WaitInv DEF Step
<1>3. CASE Stop \/ Start
    BY <1>3, SameRequests DEF Stop, Start
<1>4. CASE Closed \/ Kill
    BY <1>4, EndedInv DEF Closed, Kill
<1> QED BY <1>1, <1>2, <1>3, <1>4 DEF Next

\* However many requests come and go, on whatever pool.
THEOREM Invariance == Spec => []IInv
BY InitInv, NextInv, PTL DEF Spec

\* The variables have their types.
THEOREM TypeCorrect == Spec => []TypeOK
<1>1. IInv => TypeOK
    BY DEF IInv
<1> QED BY <1>1, Invariance, PTL

\* No path through a handler keeps a connection.
THEOREM PoolIsWhole == Spec => []ConnectionsAreReturned
<1>1. IInv => ConnectionsAreReturned
    BY DEF IInv
<1> QED BY <1>1, Invariance, PTL

\* A pool of one connection is enough: nobody who waits for one keeps another waiting.
THEOREM NoHoldAndWait == Spec => []NobodyHoldsAndWaits
<1>1. IInv => NobodyHoldsAndWaits
    BY DEF IInv
<1> QED BY <1>1, Invariance, PTL

\* Requests are refused for the first thing that is wrong with them.
THEOREM FaultsInOrder == Spec => []EarliestFaultIsAnswered
<1>1. IInv => EarliestFaultIsAnswered
    BY DEF IInv
<1> QED BY <1>1, Invariance, PTL

\* A status other than 500 tells whether there was a commit.
THEOREM TrueAnswers == Spec => []AnswerTellsCommit
<1>1. IInv => AnswerTellsCommit
    BY DEF IInv
<1> QED BY <1>1, Invariance, PTL

\* No transaction runs without a caller.
THEOREM CallersOnly == Spec => []OnlyCallersReachServices
<1>1. IInv => OnlyCallersReachServices
    BY DEF IInv
<1> QED BY <1>1, Invariance, PTL

-----------------------------------------------------------------------------
(* Somebody goes on. *)

\* Nobody begins to wait for a transaction but by Wait.
LEMMA OnlyWaitWaits ==
    ASSUME Split, [Next]_vars, \A r, s \in Requests : ~Wait(r, s), NEW q \in Requests
    PROVE  rq'[q].on \in {rq[q].on, None}
<1>1. /\ rq \in [Requests -> Records] /\ rq[q] \in Records
      /\ NoRequest.on = None
    BY FreshRequest DEF Split
<1>2. ASSUME NEW r \in Requests, NEW status, NEW done, End(r, status, done)
      PROVE  rq'[q].on \in {rq[q].on, None}
    BY <1>1, <1>2 DEF End, WithAnswer, Answered, Wake, Records
<1>3. ASSUME NEW r \in Requests, NEW place, Goto(r, place)
      PROVE  rq'[q].on = rq[q].on
    BY <1>1, <1>3 DEF Goto, Records
<1>4. ASSUME NEW r \in Requests, Arrive(r) \/ Return(r) \/ Cancel(r) \/ Acquire(r)
      PROVE  rq'[q].on \in {rq[q].on, None}
    <2>1. CASE Arrive(r) \/ Return(r)
        BY <1>1, <2>1 DEF Arrive, Return, NoRequest
    <2>2. CASE Cancel(r)
        BY <1>1, <2>2 DEF Cancel, Records
    <2>3. CASE Acquire(r)
        <3> DEFINE pl == CASE rq[r].place = "want identity" -> "identity"
                           [] rq[r].place = "want query"    -> "query"
                           [] OTHER                         -> "tx"
        <3>1. PICK c \in idle : rq' = [rq EXCEPT ![r].conn = c, ![r].place = pl]
            BY <2>3 DEF Acquire
        <3> HIDE DEF pl
        <3> QED BY <1>1, <3>1 DEF Records
    <2> QED BY <1>4, <2>1, <2>2, <2>3
<1>5. ASSUME NEW r \in Requests, AcquireFails(r) \/ Healthz(r) \/ Query(r) \/ Commit(r)
      PROVE  rq'[q].on \in {rq[q].on, None}
    BY <1>2, <1>5 DEF AcquireFails, Healthz, Query, Commit, Answer
<1>6. ASSUME NEW r \in Requests, ExtractAndValidateJWT(r) \/ ReadInput(r) \/ Statements(r)
      PROVE  rq'[q].on \in {rq[q].on, None}
    BY <1>2, <1>3, <1>6 DEF ExtractAndValidateJWT, ReadInput, Statements, Answer
<1>7. ASSUME NEW r \in Requests, SelectUserByIdentity(r)
      PROVE  rq'[q].on \in {rq[q].on, None}
    <2> DEFINE pl == IF rq[r].route = "Me" THEN "want query" ELSE "input"
    <2>1. CASE \E status : Answer(r, status)
        BY <1>2, <2>1 DEF Answer
    <2>2. CASE rq' = [rq EXCEPT ![r].conn = None, ![r].found = TRUE, ![r].place = pl]
        <3> HIDE DEF pl
        <3> QED BY <1>1, <2>2 DEF Records
    <2> QED BY <1>7, <2>1, <2>2, ZenonT(30) DEF SelectUserByIdentity
<1>8. CASE Stop \/ Start \/ UNCHANGED vars
    BY <1>8 DEF Stop, Start, vars
<1>9. CASE Closed \/ Kill
    BY <1>1, <1>9 DEF Closed, Kill, Ended
<1> QED BY <1>4, <1>5, <1>6, <1>7, <1>8, <1>9 DEF Next, Step

\* Who is waited for does not wait itself when the wait begins.
LEMMA WaitsEndStep == ASSUME Split, WaitsEnd, [Next]_vars PROVE WaitsEnd'
<1> SUFFICES ASSUME NEW S \in SUBSET Requests, S # {} PROVE \E q \in S : rq'[q].on \notin S
    BY DEF WaitsEnd
<1>1. CASE \E r, s \in Requests : Wait(r, s)
    <2>1. PICK r \in Requests, s \in Requests : Wait(r, s)
        BY <1>1
    <2>2. /\ rq \in [Requests -> Records] /\ s # r
          /\ rq' = [rq EXCEPT ![r].place = "blocked", ![r].on = s]
          /\ rq[s].place # "blocked"
        BY <2>1 DEF Wait, Split
    <2>3. /\ rq'[r].on = s
          /\ \A q \in Requests : q # r => rq'[q] = rq[q]
        BY <2>2 DEF Records
    <2>4. rq[s].on \notin S
        BY <2>2, NoneIsNone DEF Split, Has
    <2>5. CASE r \in S
        BY <2>2, <2>3, <2>4, <2>5
    <2>6. CASE r \notin S
        <3>1. PICK q \in S : rq[q].on \notin S
            BY DEF WaitsEnd
        <3> QED BY <2>3, <2>6, <3>1
    <2> QED BY <2>5, <2>6
<1>2. CASE \A r, s \in Requests : ~Wait(r, s)
    <2>1. PICK q \in S : rq[q].on \notin S
        BY DEF WaitsEnd
    <2> QED BY <1>2, <2>1, OnlyWaitWaits, NoneIsNone
<1> QED BY <1>1, <1>2

\* A connection that is not idle is with a request. If that one waits for a transaction,
\* so do some others, but one of them for one that does not wait.
LEMMA SomebodyMoves == ASSUME Split, WaitsEnd PROVE NobodyStandsStill
<1> DEFINE Goes(r) == rq[r].place \in {"tx", "statements", "commit"}
<1>1. ASSUME NEW r \in Requests, rq[r].place = "blocked" PROVE \E s \in Requests : Goes(s)
    <2> DEFINE B == {q \in Requests : rq[q].on # None}
    <2>1. r \in B
        BY <1>1 DEF Split, Has
    <2>2. PICK q \in B : rq[q].on \notin B
        BY <2>1 DEF WaitsEnd
    <2>3. /\ rq[q].on \in Requests /\ rq[rq[q].on].on = None
          /\ rq[rq[q].on].place \in TxPlaces
        BY <2>2 DEF Split, Shared, Records
    <2> QED BY <2>3 DEF Split, Has, TxPlaces
<1>2. ASSUME NEW c \in Conns, idle = {}
      PROVE  \E r \in Requests : rq[r].place \in Holding \ {"blocked"}
    <2>1. PICK r \in Requests : rq[r].conn = c
        BY <1>2 DEF Split, Shared
    <2>2. rq[r].place \in Holding
        BY <2>1, NoneIsNone DEF Split, Has
    <2> QED BY <1>1, <2>2 DEF Holding
<1> QED BY <1>1, <1>2 DEF NobodyStandsStill

\* One connection is enough, and no order of waiting stops the server: whoever waits,
\* there is a request that does not.
THEOREM SomebodyGoesOn == Spec => []NobodyStandsStill
<1>1. Init => WaitsEnd
    BY FreshRequest, NoneIsNone DEF Init, WaitsEnd
<1>2. IInv /\ WaitsEnd /\ [Next]_vars => WaitsEnd'
    BY IInvSplits, WaitsEndStep
<1>3. IInv /\ WaitsEnd => NobodyStandsStill
    BY IInvSplits, SomebodyMoves
<1> QED BY <1>1, <1>2, <1>3, Invariance, PTL DEF Spec
=============================================================================
