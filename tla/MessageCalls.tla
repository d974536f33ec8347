----------------------------- MODULE MessageCalls -----------------------------
(***************************************************************************)
(* The tables of the message service and the calls it gets: what           *)
(* MessageStore promises about them and Messages implements.  A message is *)
(* direct, with a recipient, or a channel message, possibly a reply to     *)
(* another one.  Bodies and timestamps are left out, and with them the     *)
(* refusal of an empty body; so are the limit and offset of a page, which  *)
(* can have any number of the messages it is cut from, and the refusal of  *)
(* those beyond 32 bits.  No service creates channels: they exist from the *)
(* start, one in each workspace, and vanish with the workspace, when it or *)
(* its owner's account is deleted.                                         *)
(***************************************************************************)
EXTENDS Integers, FiniteSets

CONSTANTS
    Users,     \* ids of users
    Channels,  \* ids of channels, and of the workspaces they belong to
    Messages,  \* ids of messages
    None,      \* the id a row or a request does not have
    Owner,     \* Owner[c]: the owner of channel c's workspace
    Txs,       \* the calls that can be handled at one time
    Ops,       \* the operations that callers ask for
    Faults     \* whether statements and connections can fail

Ids == Users \cup Channels \cup Messages

OnMessage == {"UpdateDirectMessage", "ReadSingleDirectMessage", "DeleteDirectMessage",
              "UpdateChannelMessage", "ReadSingleChannelMessage",
              "ReadChannelThreadReplies", "DeleteChannelMessage"}
Pages == {"ReadDirectMessagePage", "ReadChannelMessagePage"}
Operations == OnMessage \cup Pages
                        \cup {"SendDirectMessage", "SendChannelMessage",
                              "DeleteWorkspace", "DeleteUser"}

ASSUME NoneIsNoId        == None \notin Ids
ASSUME IdsAreDisjoint    == /\ Users \cap Channels = {} /\ Users \cap Messages = {}
                            /\ Channels \cap Messages = {}
ASSUME MessagesAreFinite == IsFiniteSet(Messages)
ASSUME OwnersAreUsers    == Owner \in [Channels -> Users]
ASSUME OpsAreOperations  == Ops \subseteq Operations
ASSUME FaultsIsBoolean   == Faults \in BOOLEAN

MessageRows == [author : Users \cup {None}, to   : Users \cup {None},
                chan   : Channels \cup {None}, root : Messages \cup {None}]
NoRow == [author |-> None, to |-> None, chan |-> None, root |-> None]

-----------------------------------------------------------------------------
\* S: the ids of the rows that exist; row[m]: the row of message m.

Replies(S, row, r) == {m \in S \cap Messages : row[m].root = r}

\* The rows that ON DELETE CASCADE deletes with row r.
Referencing(S, row, r) == {m \in S \cap Messages : r \in {row[m].chan, row[m].root}}

\* The rows of R and the messages that their deletion takes along.
Cascade(S, row, R) ==
    R \cup {m \in S \cap Messages : \A C \in SUBSET (S \cap Messages) :
        (\A r \in R \cup C : Referencing(S, row, r) \subseteq C) => m \in C}

OwnedChannels(S, u) == {c \in S \cap Channels : Owner[c] = u}

\* The messages that refuse the deletion of account u (ON DELETE RESTRICT).
WrittenBy(S, row, u) == {m \in S \cap Messages : u \in {row[m].author, row[m].to}}

-----------------------------------------------------------------------------
\* A request; for SendChannelMessage "id" is the thread root, if any.
Requests ==
    [op : Ops \cap {"SendDirectMessage", "ReadDirectMessagePage"},
     user : Users, to : Users, chan : {None}, id : {None}]
    \cup [op : Ops \cap {"SendChannelMessage"},
          user : Users, to : {None}, chan : Channels, id : Messages \cup {None}]
    \cup [op : Ops \cap OnMessage, user : {None}, to : {None}, chan : {None}, id : Messages]
    \cup [op : Ops \cap {"DeleteWorkspace", "ReadChannelMessagePage"},
          user : {None}, to : {None}, chan : Channels, id : {None}]
    \cup [op : Ops \cap {"DeleteUser"},
          user : Users, to : {None}, chan : {None}, id : {None}]

\* The row that a Send inserts.
NewRow(c) == [author |-> c.user, to |-> c.to, chan |-> c.chan, root |-> c.id]

\* Whether the message that call c names is in the table of its operation.
IsNamed(S, row, c) ==
    /\ c.id \in S
    /\ IF c.op \in {"UpdateDirectMessage", "ReadSingleDirectMessage", "DeleteDirectMessage"}
       THEN row[c.id].to # None
       ELSE row[c.id].chan # None

\* The messages that page c is cut from: a conversation in both directions, or the
\* thread roots of a channel.
Listed(S, row, c) ==
    IF c.op = "ReadDirectMessagePage"
    THEN {m \in S \cap Messages : row[m].to # None /\ {row[m].author, row[m].to} = {c.user, c.to}}
    ELSE {m \in S \cap Messages : row[m].chan = c.chan /\ row[m].root = None}

\* What a call returns.  "ErrKey" is the wrapped foreign-key error, "ErrDeadlock"
\* PostgreSQL's 40P01, "ErrCheck" a failed CHECK (reply_count >= 0) and
\* "ErrInternal" any other failure; "got" is the reply count, or the number of
\* messages, that a success returns.
Responses == {"ok", "ErrNotFound", "ErrMessageToSelf", "ErrConversationWithSelf",
              "ErrKey", "ErrDeadlock", "ErrCheck", "ErrInternal"}

NoCall == [op |-> "none", user |-> None, to |-> None, chan |-> None, id |-> None,
           resp |-> "none", got |-> 0]

CallRecords ==
    [op : Ops \cup {"none"}, user : Users \cup {None}, to : Users \cup {None},
     chan : Channels \cup {None}, id : Messages \cup {None},
     resp : Responses \cup {"none", "pending"}, got : Int]

Received(r) ==
    [op |-> r.op, user |-> r.user, to |-> r.to, chan |-> r.chan, id |-> r.id,
     resp |-> CASE r.op = "SendDirectMessage" /\ r.user = r.to     -> "ErrMessageToSelf"
                [] r.op = "ReadDirectMessagePage" /\ r.user = r.to -> "ErrConversationWithSelf"
                [] OTHER                                           -> "pending",
     got |-> 0]
=============================================================================
