----------------------------- MODULE MessageStore -----------------------------
(***************************************************************************)
(* What the message service promises: every call takes effect, and is      *)
(* answered, as if it ran alone at one moment.  No counter is stored here: *)
(* the reply count of a message is the number of its replies, always.      *)
(* The account of an author is deleted only when nothing written by or to  *)
(* that account is left.                                                   *)
(***************************************************************************)
EXTENDS MessageCalls

VARIABLES
    db,   \* the ids of the committed rows
    row,  \* row[m]: the row of message m
    call  \* call[t]: the request in slot t and its answer

vars == <<db, row, call>>

Pending(t, op) == call[t].op = op /\ call[t].resp = "pending"

AnswerWith(t, resp, got) == call' = [call EXCEPT ![t].resp = resp, ![t].got = got]

Refuse(t, resp) == AnswerWith(t, resp, 0) /\ UNCHANGED <<db, row>>

\* The store becomes S; the caller may be told of an error all the same.
Succeed(t, S, rows, got) ==
    /\ db' = S
    /\ row' = rows
    /\ AnswerWith(t, "ok", got) \/ (Faults /\ AnswerWith(t, "ErrInternal", 0))

\* The rows R and their cascade go.
Delete(t, R) ==
    LET gone == Cascade(db, row, R) IN
    Succeed(t, db \ gone, [m \in Messages |-> IF m \in gone THEN NoRow ELSE row[m]], 0)

Named(t) == IsNamed(db, row, call[t])

-----------------------------------------------------------------------------
Init ==
    /\ db = Users \cup Channels
    /\ row = [m \in Messages |-> NoRow]
    /\ call = [t \in Txs |-> NoCall]

Arrive(t) ==
    /\ call[t] = NoCall
    /\ \E r \in Requests : call' = [call EXCEPT ![t] = Received(r)]
    /\ UNCHANGED <<db, row>>

Return(t) ==
    /\ call[t].resp \in Responses
    /\ call' = [call EXCEPT ![t] = NoCall]
    /\ UNCHANGED <<db, row>>

Send(t) ==
    LET c == call[t]
        keysHold == /\ {c.user, c.to, c.chan} \ {None} \subseteq db
                    /\ c.id # None => Named(t)
    IN
    /\ Pending(t, "SendDirectMessage") \/ Pending(t, "SendChannelMessage")
    /\ \/ ~keysHold /\ Refuse(t, "ErrKey")
       \/ /\ keysHold
          /\ \E m \in Messages \ db :
                Succeed(t, db \cup {m}, [row EXCEPT ![m] = NewRow(c)], 0)

ReadOrUpdate(t) ==
    LET m == call[t].id IN
    /\ \E op \in {"UpdateDirectMessage", "UpdateChannelMessage",
                  "ReadSingleDirectMessage", "ReadSingleChannelMessage"} : Pending(t, op)
    /\ \/ ~Named(t) /\ Refuse(t, "ErrNotFound")
       \/ Named(t) /\ Succeed(t, db, row, Cardinality(Replies(db, row, m)))

ReadChannelThreadReplies(t) ==
    LET replies == Replies(db, row, call[t].id) IN
    /\ Pending(t, "ReadChannelThreadReplies")
    /\ \/ replies = {} /\ Refuse(t, "ErrNotFound")
       \/ replies # {} /\ Succeed(t, db, row, Cardinality(replies))

ReadPage(t) ==
    /\ \E op \in Pages : Pending(t, op)
    /\ \E n \in 0..Cardinality(Listed(db, row, call[t])) : Succeed(t, db, row, n)

DeleteMessage(t) ==
    /\ Pending(t, "DeleteDirectMessage") \/ Pending(t, "DeleteChannelMessage")
    /\ \/ ~Named(t) /\ Refuse(t, "ErrNotFound")
       \/ Named(t) /\ Delete(t, {call[t].id})

DeleteWorkspace(t) ==
    /\ Pending(t, "DeleteWorkspace")
    /\ \/ call[t].chan \notin db /\ Refuse(t, "ErrNotFound")
       \/ call[t].chan \in db /\ Delete(t, {call[t].chan})

DeleteUser(t) ==
    LET u    == call[t].user
        gone == Cascade(db, row, OwnedChannels(db, u))
        left == WrittenBy(db \ gone, row, u)
    IN
    /\ Pending(t, "DeleteUser")
    /\ \/ u \notin db /\ Refuse(t, "ErrNotFound")
       \/ u \in db /\ left # {} /\ Refuse(t, "ErrKey")
       \/ u \in db /\ left = {} /\ Delete(t, {u} \cup OwnedChannels(db, u))

Fail(t) ==
    /\ call[t].resp = "pending"
    /\ Refuse(t, "ErrDeadlock") \/ (Faults /\ Refuse(t, "ErrInternal"))

Next ==
    \E t \in Txs :
        \/ Arrive(t) \/ Return(t)
        \/ Send(t) \/ ReadOrUpdate(t) \/ ReadChannelThreadReplies(t) \/ ReadPage(t)
        \/ DeleteMessage(t) \/ DeleteWorkspace(t) \/ DeleteUser(t)
        \/ Fail(t)

Spec == Init /\ [][Next]_vars
=============================================================================
