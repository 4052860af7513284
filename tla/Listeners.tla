------------------------------ MODULE Listeners ------------------------------
(***************************************************************************)
(* listen() and unlisten() of PgrustPGlite (client/pgrust-pglite.ts): the  *)
(* map of callbacks on the client, the channels its backend listens on,    *)
(* and the two mutexes and the transaction a call goes through.            *)
(*                                                                         *)
(* A caller has one callback, and no two subscriptions with it at a time   *)
(* (the live extension makes a callback for each).  An action is what runs *)
(* between two awaits, or one statement of the backend.  A statement holds *)
(* the transaction mutex, or is one of the transaction that does: exec of  *)
(* BasePGlite, which is not under src/.                                    *)
(***************************************************************************)
EXTENDS Naturals, Sequences

CONSTANTS Subscribers, \* the callers, each with a callback of its own
          Names,       \* channels
          MaxListens   \* bound: calls of listen, unlisten and transaction

ASSUME ListenAssumption == MaxListens \in Nat

VARIABLES callbacks,   \* #notifyListeners: by channel, its callbacks
          keys,        \* and the channels it has an entry for, if empty
          listenMutex, \* #listenMutex: its holder, and who waits, in order
          txMutex,     \* #transactionMutex, the same
          call,        \* by caller: its call in progress
          tx,          \* the open transaction: staged is what it will leave
          heard,       \* channels the backend listens on
          sub,         \* by caller and channel: how the subscription stands
          made         \* calls so far

table == <<callbacks, keys>>
server == <<tx, heard>>
listenVars == <<table, listenMutex, txMutex, call, server, sub, made>>

(* A name as it is written, with or without capitals and quotes, and the    *)
(* channel it stands for.                                                   *)
Words == Names \X {"lower", "mixed"}
Spellings == [word : Words, quoted : BOOLEAN]
Folded(w) == <<w[1], "lower">>
toPostgresName(s) == IF s.quoted THEN s.word ELSE Folded(s.word)

(* The function listen() returns names the channel by what it made of the   *)
(* name, not by the name it was given: the capitals a quoted name kept are  *)
(* folded now.                                                              *)
Respelled(s) == [word |-> toPostgresName(s), quoted |-> FALSE]

ACall(op, pc, aim, name) == [op |-> op, pc |-> pc, aim |-> aim, name |-> name]
NoCall == ACall("none", "done", << >>, << >>)
NoTx == [by |-> {}, staged |-> {}, failed |-> FALSE]

HasMutex(mutex, c) == mutex # << >> /\ Head(mutex) = c
Inside(c) == c \in tx.by

Idle(c) == call[c].op = "none"
At(c, op, pc) == call[c].op = op /\ call[c].pc = pc
Goes(c, pc) == call' = [call EXCEPT ![c].pc = pc]

ListenInit ==
    /\ callbacks = [w \in Words |-> {}] /\ keys = {}
    /\ listenMutex = << >> /\ txMutex = << >>
    /\ call = [c \in Subscribers |-> NoCall]
    /\ tx = NoTx /\ heard = {}
    /\ sub = [c \in Subscribers |-> [w \in Words |-> "never"]]
    /\ made = 0
-----------------------------------------------------------------------------
(* Calls.  aim is the channel the caller means, as the backend reads it.    *)
Asks(c, op, aim, name) ==
    /\ Idle(c) /\ made < MaxListens /\ made' = made + 1
    /\ call' = [call EXCEPT ![c] = ACall(op, "lock", aim, toPostgresName(name))]
    /\ listenMutex' = Append(listenMutex, c)
    /\ UNCHANGED <<table, txMutex, server>>

Stands(c, w) == sub[c][w] \in {"pending", "on", "lost"}

AskListen(c, s) ==
    LET aim == toPostgresName(s) IN
    /\ sub[c][aim] \in {"never", "left", "lost"}
    /\ Asks(c, "listen", aim, s)
    /\ sub' = [sub EXCEPT ![c][aim] = "asked"]

(* With its callback: by the function listen() returned, or by name.        *)
AskUnlisten(c, s) ==
    LET aim == toPostgresName(s) IN
    /\ Stands(c, aim)
    /\ \E name \in {s, Respelled(s)} : Asks(c, "unlisten", aim, name)
    /\ sub' = [sub EXCEPT ![c][aim] = "leaving"]

(* Without one: the channel, for everybody.                                 *)
AskUnlistenAll(c, s) ==
    /\ Asks(c, "clear", toPostgresName(s), s)
    /\ UNCHANGED sub

(* pg.exec: one of the caller's transaction, or one that waits for its turn. *)
Executes(c) ==
    /\ txMutex' = IF Inside(c) THEN txMutex ELSE Append(txMutex, c)
    /\ Goes(c, "exec")

Returns(c) ==
    /\ call' = [call EXCEPT ![c] = NoCall]
    /\ listenMutex' = Tail(listenMutex)

(* Mutant: the map knows the channel, so the backend is not told again.     *)
AddCallbackOnce(c) ==
    LET w == call[c].name IN
    /\ At(c, "listen", "lock") /\ HasMutex(listenMutex, c)
    /\ callbacks' = [callbacks EXCEPT ![w] = @ \cup {c}] /\ keys' = keys \cup {w}
    /\ IF w \in keys
       THEN Goes(c, "ok") /\ UNCHANGED txMutex
       ELSE Executes(c)
    /\ UNCHANGED <<listenMutex, server, sub, made>>

(* The callback is in the map before the backend is told.                   *)
AddCallback(c) ==
    LET w == call[c].name IN
    /\ At(c, "listen", "lock") /\ HasMutex(listenMutex, c)
    /\ callbacks' = [callbacks EXCEPT ![w] = @ \cup {c}] /\ keys' = keys \cup {w}
    /\ Executes(c)
    /\ UNCHANGED <<listenMutex, server, sub, made>>

Left(c) == [sub EXCEPT ![c][call[c].aim] = "left"]

(* The caller has let go of the channel it meant.  When the call names      *)
(* another (Respelled), neither is as its caller thinks: the callback stays *)
(* where it was, and is taken from the channel with the folded name.        *)
LetGo(c) ==
    IF call[c].name = call[c].aim
    THEN Left(c)
    ELSE [sub EXCEPT ![c] = [w \in Words |->
             IF w = call[c].aim \/ (w = call[c].name /\ Stands(c, w)) THEN "lost" ELSE @[w]]]

DeleteCallback(c) ==
    LET w == call[c].name IN
    /\ At(c, "unlisten", "lock") /\ HasMutex(listenMutex, c)
    /\ callbacks' = [callbacks EXCEPT ![w] = @ \ {c}]
    /\ sub' = LetGo(c)
    /\ IF w \in keys /\ callbacks[w] \subseteq {c}
       THEN Executes(c) /\ UNCHANGED listenMutex
       ELSE Returns(c) /\ UNCHANGED txMutex
    /\ UNCHANGED <<keys, server, made>>

(* Nobody is subscribed from here on; their callbacks stay in the map.      *)
Clear(c) ==
    LET w == call[c].name IN
    /\ At(c, "clear", "lock") /\ HasMutex(listenMutex, c)
    /\ sub' = [d \in Subscribers |-> [sub[d] EXCEPT ![w] = IF Stands(d, w) THEN "lost" ELSE @]]
    /\ Executes(c)
    /\ UNCHANGED <<table, listenMutex, server, made>>

(* LISTEN or UNLISTEN on the backend, which may refuse it.  Of a transaction *)
(* that has failed every statement fails; of one that has not it counts     *)
(* from the commit.                                                         *)
Effect(c, channels) ==
    IF call[c].op = "listen" THEN channels \cup {call[c].name}
                             ELSE channels \ {call[c].name}

Alone(c) ==
    /\ call[c].pc = "exec" /\ ~ Inside(c) /\ HasMutex(txMutex, c)
    /\ txMutex' = Tail(txMutex)
    /\ \/ Goes(c, "ok") /\ heard' = Effect(c, heard)
       \/ Goes(c, "failed") /\ UNCHANGED heard
    /\ UNCHANGED <<table, listenMutex, tx, sub, made>>

InTransaction(c) ==
    /\ call[c].pc = "exec" /\ Inside(c)
    /\ \/ tx.failed /\ Goes(c, "failed") /\ UNCHANGED tx
       \/ ~ tx.failed /\ Goes(c, "ok") /\ tx' = [tx EXCEPT !.staged = Effect(c, @)]
    /\ UNCHANGED <<table, listenMutex, txMutex, heard, sub, made>>

Listened(c) ==
    /\ At(c, "listen", "ok")
    /\ sub' = [sub EXCEPT ![c][call[c].aim] = IF Inside(c) THEN "pending" ELSE "on"]
    /\ Returns(c)
    /\ UNCHANGED <<table, txMutex, server, made>>

ListenFails(c) ==
    LET w == call[c].name IN
    /\ At(c, "listen", "failed")
    /\ callbacks' = [callbacks EXCEPT ![w] = @ \ {c}]
    /\ keys' = IF callbacks[w] \subseteq {c} THEN keys \ {w} ELSE keys
    /\ sub' = Left(c)
    /\ Returns(c)
    /\ UNCHANGED <<txMutex, server, made>>

(* cleanUp looks again after its UNLISTEN.                                  *)
Unlistened(c) ==
    LET w == call[c].name IN
    /\ call[c].op \in {"unlisten", "clear"} /\ call[c].pc \in {"ok", "failed"}
    /\ keys' = IF call[c].pc = "ok" /\ callbacks[w] = {} THEN keys \ {w} ELSE keys
    /\ Returns(c)
    /\ UNCHANGED <<callbacks, txMutex, server, sub, made>>
-----------------------------------------------------------------------------
(* transaction() holds the mutex while its callback runs, which may listen  *)
(* and unlisten on it.                                                      *)
AskTransaction(c) ==
    /\ Idle(c) /\ ~ Inside(c) /\ made < MaxListens /\ made' = made + 1
    /\ call' = [call EXCEPT ![c] = ACall("transaction", "lock", << >>, << >>)]
    /\ txMutex' = Append(txMutex, c)
    /\ UNCHANGED <<table, listenMutex, server, sub>>

Open(c) ==
    /\ At(c, "transaction", "lock") /\ HasMutex(txMutex, c)
    /\ tx' = [by |-> {c}, staged |-> heard, failed |-> FALSE]
    /\ call' = [call EXCEPT ![c] = NoCall]
    /\ UNCHANGED <<table, listenMutex, txMutex, heard, sub, made>>

(* Some other statement of it fails.                                        *)
StatementFails(c) ==
    /\ Inside(c) /\ Idle(c) /\ ~ tx.failed
    /\ tx' = [tx EXCEPT !.failed = TRUE]
    /\ UNCHANGED <<table, listenMutex, txMutex, call, heard, sub, made>>

Ends(c, became) ==
    /\ Inside(c) /\ Idle(c)
    /\ tx' = NoTx /\ txMutex' = Tail(txMutex)
    /\ sub' = [sub EXCEPT ![c] = [w \in Words |-> IF @[w] = "pending" THEN became ELSE @[w]]]
    /\ UNCHANGED <<table, listenMutex, call, made>>

Commit(c) == Ends(c, "on") /\ ~ tx.failed /\ heard' = tx.staged
Rollback(c) == Ends(c, "lost") /\ UNCHANGED heard

Ask(c) ==
    \/ \E s \in Spellings : AskListen(c, s) \/ AskUnlisten(c, s) \/ AskUnlistenAll(c, s)
    \/ AskTransaction(c) \/ StatementFails(c)

Continues(c) ==
    \/ AddCallback(c) \/ DeleteCallback(c) \/ Clear(c)
    \/ Alone(c) \/ InTransaction(c)
    \/ Listened(c) \/ ListenFails(c) \/ Unlistened(c)
    \/ Open(c)

End(c) == Commit(c) \/ Rollback(c)

ListenNext == \E c \in Subscribers : Ask(c) \/ Continues(c) \/ End(c)

(* A mutex goes to who asked first, a statement is answered, and the        *)
(* callback of a transaction comes to its end.                              *)
ListenFairness ==
    \A c \in Subscribers : WF_listenVars(Continues(c)) /\ WF_listenVars(End(c))
ListenSpec == ListenInit /\ [][ListenNext]_listenVars /\ ListenFairness
-----------------------------------------------------------------------------
(* A subscription is "on" from the return of listen(), or the commit of its *)
(* transaction, until its caller lets go of it, anybody unlistens the       *)
(* channel for all, or its caller lets go of a channel with capitals and    *)
(* the same letters by the function listen() returned, which means this one *)
(* (pgrust-pglite.ts:852, :863).  While it is on it is heard: its callback  *)
(* is in the map and the backend listens on the channel, whatever other     *)
(* callers listen to, let go of, commit and roll back.                      *)
StillHeard ==
    \A c \in Subscribers, w \in Words :
       sub[c][w] = "on" => c \in callbacks[w] /\ w \in heard

(* Who has let go of its subscription is not called back, unless it was of  *)
(* a channel with capitals and let go by the function listen() returned.    *)
Unsubscribed ==
    \A c \in Subscribers, w \in Words : sub[c][w] = "left" => c \notin callbacks[w]

(* Both, for names with and without quotes and capitals: a subscription is  *)
(* what its caller made of it (listen, unlisten), but for what the function *)
(* listen() returns does to a channel with capitals.                        *)
Subscriptions == StillHeard /\ Unsubscribed

(* The one way for a call to hang: a transaction wants to listen while a    *)
(* call outside of it has the listen mutex and waits for the transaction.   *)
Crossed ==
    \E c, d \in Subscribers :
       /\ c # d /\ Inside(c) /\ ~ Idle(c) /\ call[c].pc = "lock"
       /\ HasMutex(listenMutex, d) /\ call[d].pc = "exec" /\ ~ Inside(d)

(* Every call of listen, unlisten and transaction ends, unless the two      *)
(* mutexes are taken crosswise.                                             *)
CallsEnd == \A c \in Subscribers : ~ Idle(c) ~> (Idle(c) \/ Crossed)
=============================================================================
