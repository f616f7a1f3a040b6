---------------------------- MODULE TopicManager ----------------------------
(***************************************************************************)
(* TopicManager and its HandlerFactory (ws/TopicManager.java), with the     *)
(* calls that reach them: the actions of ws/action/ on the thread that runs *)
(* a session's onMessage, and onClose on the container's thread.            *)
(*                                                                         *)
(* The registry is a WeakHashMap from Topic to WeakReference<NatsHandler>.  *)
(* Nothing but the map of subscriptions in the NATS connection, a local     *)
(* variable of a thread and the field NatsHandler.topic keeps its keys and  *)
(* its handlers alive, so the garbage collector is an actor here. Topic     *)
(* objects are equal when their names are (Topic.equals) and distinct as    *)
(* objects: a put on an equal key keeps the OLD key object. Unreachable     *)
(* objects are reclaimed and may stand for new ones, so behaviours of any   *)
(* length need only a bounded number of objects that live at once.          *)
(*                                                                         *)
(* The map is not synchronised. generateHandler runs under the factory's    *)
(* lock and register and disregister under the handler's: each is one       *)
(* step. The NATS connection is abstracted to "subscribe or unsubscribe     *)
(* succeeds or throws" and to the handlers its map of subscriptions holds.  *)
(* It is one object throughout: that NatsManager may replace it, and with   *)
(* it the map that holds the handlers, is NatsHandler's matter.             *)
(***************************************************************************)
CONSTANTS
    Session,          \* the web socket sessions
    Name,             \* the strings Topic.topic (prefix + id)
    Type,             \* the values of Topic.type
    TypeOf,           \* the type each name is built with
    Topic,            \* Topic objects that may live at once
    Handler,          \* NatsHandler objects that may live at once
    None,             \* null, and the absence of a map entry or an object
    ConcurrentClose,  \* may the container call onClose during onMessage?
    Torn              \* may racing accesses to the map lose what they touch?

ASSUME NoneAssumption == None \notin Topic \cup Handler \cup Name

ASSUME TypeAssumption == TypeOf \in [Name -> Type]

ASSUME SwitchAssumption == ConcurrentClose \in BOOLEAN /\ Torn \in BOOLEAN

VARIABLES
    key,         \* key[n]: the key object of the entry for name n, or None
    ref,         \* ref[n]: the handler its WeakReference still yields, or None
    topic,       \* topic[h]: the field NatsHandler.topic, None when h is free
    sessions,    \* sessions[h]: the field NatsHandler.sessions
    subscribed,  \* the handlers whose subId is not -1: NATS refers to them
    leaked,      \* those a subscribe that threw has left in the connection's map
    name,        \* name[x]: the field Topic.topic, None when x is free
    filed,       \* history: handlers put in the map under their own topic
    status,      \* status[s]: how far the container has closed session s
    pc,          \* where each thread is
    call         \* the parameters and local variables of its call

vars == <<key, ref, topic, sessions, subscribed, leaked, name, filed, status, pc, call>>

heap == <<key, ref, topic, sessions, subscribed, leaked, name, filed>>

Thread == Session \X {"onMessage", "onClose"}

Location == {"idle", "looping", "copying", "generating", "invoking"}

Operation == {"none", "subscribe", "unsubscribe", "unsubscribeType", "unsubscribeAll"}

Call ==
    [op      : Operation,                 \* what the client asked for
     want    : SUBSET Name,               \* the names it asked it for
     left    : SUBSET (Name \cup {None}), \* calls of unsubscribeTopic to come;
                                          \* None stands for the one call of
                                          \* the operations without names
     held    : SUBSET Topic,              \* objects the array or HashSet holds
     todo    : SUBSET Topic,              \* those the loop has not reached
     cur     : Topic \cup {None},         \* the loop variable
     handler : Handler \cup {None},       \* the variable handler
     raced   : BOOLEAN]                   \* modCount moved during the copy

NoCall ==
    [op |-> "none", want |-> {}, left |-> {}, held |-> {}, todo |-> {},
     cur |-> None, handler |-> None, raced |-> FALSE]

(* The types, and that getHandler never answers null: a thread that calls   *)
(* register or disregister has a handler (TopicManager.java:30-31, 44-45).  *)
TypeOK ==
    /\ key \in [Name -> Topic \cup {None}]
    /\ ref \in [Name -> Handler \cup {None}]
    /\ topic \in [Handler -> Topic \cup {None}]
    /\ sessions \in [Handler -> SUBSET Session]
    /\ subscribed \in SUBSET Handler
    /\ leaked \in SUBSET Handler
    /\ name \in [Topic -> Name \cup {None}]
    /\ filed \in SUBSET Handler
    /\ status \in [Session -> {"open", "closing", "closed", "failed"}]
    /\ pc \in [Thread -> Location]
    /\ call \in [Thread -> Call]
    /\ \A t \in Thread : pc[t] = "invoking" => call[t].handler \in Handler

Init ==
    /\ key = [n \in Name |-> None]
    /\ ref = [n \in Name |-> None]
    /\ topic = [h \in Handler |-> None]
    /\ sessions = [h \in Handler |-> {}]
    /\ subscribed = {}
    /\ leaked = {}
    /\ name = [x \in Topic |-> None]
    /\ filed = {}
    /\ status = [s \in Session |-> "open"]
    /\ pc = [t \in Thread |-> "idle"]
    /\ call = [t \in Thread |-> NoCall]

-----------------------------------------------------------------------------
(* Calls that enter the manager.                                           *)

Enter(t, op, want, left, topics) ==
    /\ pc[t] = "idle"
    /\ pc' = [pc EXCEPT ![t] = "looping"]
    /\ call' = [call EXCEPT ![t] =
          [NoCall EXCEPT !.op = op, !.want = want, !.left = left,
                         !.held = topics, !.todo = topics]]

(* SubAction: buildTopic makes a new Topic object for each id, an id given  *)
(* twice included, and the array holds them all until the loop ends.        *)
Subscribe(s) ==
    \E new \in (SUBSET {x \in Topic : name[x] = None}) \ {{}} :
        \E f \in [new -> Name] :
            /\ status[s] = "open"
            /\ Enter(<<s, "onMessage">>, "subscribe", {f[x] : x \in new}, {}, new)
            /\ name' = [x \in Topic |-> IF x \in new THEN f[x] ELSE name[x]]
            /\ UNCHANGED <<key, ref, topic, sessions, subscribed, leaked, filed, status>>

(* UnsubAction: one call of unsubscribeTopic for each id.                   *)
Unsubscribe(s) ==
    \E ids \in (SUBSET Name) \ {{}} :
        /\ status[s] = "open"
        /\ Enter(<<s, "onMessage">>, "unsubscribe", ids, ids, {})
        /\ UNCHANGED <<heap, status>>

UnsubscribeType(s) ==
    \E ty \in Type :
        /\ status[s] = "open"
        /\ Enter(<<s, "onMessage">>, "unsubscribeType",
                 {n \in Name : TypeOf[n] = ty}, {None}, {})
        /\ UNCHANGED <<heap, status>>

UnsubscribeAll(s) ==
    /\ status[s] = "open"
    /\ Enter(<<s, "onMessage">>, "unsubscribeAll", Name, {None}, {})
    /\ UNCHANGED <<heap, status>>

(* The container closes the session. It delivers no message after that, and *)
(* one it has delivered may still be running when ConcurrentClose.          *)
OnClose(s) ==
    /\ status[s] = "open"
    /\ ConcurrentClose \/ pc[<<s, "onMessage">>] = "idle"
    /\ Enter(<<s, "onClose">>, "unsubscribeAll", Name, {None}, {})
    /\ status' = [status EXCEPT ![s] = "closing"]
    /\ UNCHANGED heap

-----------------------------------------------------------------------------
(* The loops over topics.                                                  *)

(* Each call of an unsubscribe method copies the key set outside its try.   *)
StartPass(t) ==
    \E n \in call[t].left :
        /\ pc[t] = "looping"
        /\ call[t].todo = {}
        /\ pc' = [pc EXCEPT ![t] = "copying"]
        /\ call' = [call EXCEPT ![t].left = @ \ {n}, ![t].held = {},
                                ![t].raced = FALSE]
        /\ UNCHANGED <<heap, status>>

Keys == {x \in Topic : \E n \in Name : key[n] = x}

(* Mutant: unsubscribeTypeTopic looks at no type.                           *)
Wanted_anyType(t, x) == TRUE

Wanted(t, x) == call[t].op = "unsubscribeType" => name[x] \in call[t].want

(* A copy that meets no put sees every key. One that meets a put that       *)
(* resizes the table may end early and see only some. The loop passes over  *)
(* the topics of another type.                                              *)
CopyDone(t) ==
    \E seen \in SUBSET Keys :
        /\ pc[t] = "copying"
        /\ seen = Keys \/ (Torn /\ call[t].raced)
        /\ call[t].raced => Torn
        /\ pc' = [pc EXCEPT ![t] = "looping"]
        /\ call' = [call EXCEPT ![t].held = seen,
                                ![t].todo = {x \in seen : Wanted(t, x)}]
        /\ UNCHANGED <<heap, status>>

EndStatus(t, how) ==
    status' = IF t[2] = "onClose" THEN [status EXCEPT ![t[1]] = how] ELSE status

(* Mutant: the copy is tried again instead of abandoned.                    *)
CopyThrow_retry(t) ==
    /\ pc[t] = "copying"
    /\ call[t].raced
    /\ call' = [call EXCEPT ![t].raced = FALSE]
    /\ UNCHANGED <<heap, status, pc>>

(* ConcurrentModificationException leaves the method and the action.        *)
CopyThrow(t) ==
    /\ pc[t] = "copying"
    /\ call[t].raced
    /\ pc' = [pc EXCEPT ![t] = "idle"]
    /\ call' = [call EXCEPT ![t] = NoCall]
    /\ EndStatus(t, "failed")
    /\ UNCHANGED heap

Return(t) ==
    /\ pc[t] = "looping"
    /\ call[t].todo = {}
    /\ call[t].left = {}
    /\ pc' = [pc EXCEPT ![t] = "idle"]
    /\ call' = [call EXCEPT ![t] = NoCall]
    /\ EndStatus(t, IF call[t].raced THEN "failed" ELSE "closed")
    /\ UNCHANGED heap

-----------------------------------------------------------------------------
(* HandlerFactory.                                                         *)

(* The next turn of a loop, up to fetchHandler in getHandler, which takes   *)
(* no lock: a get that races the put of a new entry may miss its own.       *)
PutRaces(t) ==
    \E u \in Thread \ {t} : pc[u] = "generating" /\ key[name[call[u].cur]] = None

(* Mutant: a topic whose handler the unlocked get misses is passed over.    *)
Fetch_skipMissed(t) ==
    \E x \in call[t].todo :
        LET n == name[x]
            next == [call EXCEPT ![t].todo = @ \ {x}]
        IN  /\ pc[t] = "looping"
            /\ \/ /\ ref[n] # None
                  /\ pc' = [pc EXCEPT ![t] = "invoking"]
                  /\ call' = [next EXCEPT ![t].cur = x, ![t].handler = ref[n]]
               \/ /\ ref[n] = None \/ PutRaces(t)
                  /\ IF call[t].op = "subscribe"
                     THEN /\ pc' = [pc EXCEPT ![t] = "generating"]
                          /\ call' = [next EXCEPT ![t].cur = x]
                     ELSE UNCHANGED pc /\ call' = next
            /\ UNCHANGED <<heap, status>>

Fetch(t) ==
    \E x \in call[t].todo :
        LET n == name[x]
            next == [call EXCEPT ![t].todo = @ \ {x}, ![t].cur = x]
        IN  /\ pc[t] = "looping"
            /\ \/ /\ ref[n] # None
                  /\ pc' = [pc EXCEPT ![t] = "invoking"]
                  /\ call' = [next EXCEPT ![t].handler = ref[n]]
               \/ /\ ref[n] = None \/ PutRaces(t)
                  /\ pc' = [pc EXCEPT ![t] = "generating"]
                  /\ call' = next
            /\ UNCHANGED <<heap, status>>

(* handlers.put: an entry that is there keeps its key object and gets a new *)
(* value. A new entry moves modCount, which a copy under way will notice,   *)
(* and may be lost to a reader that expunges stale entries meanwhile.       *)
Put(t, x, h) ==
    LET n == name[x] IN
    \/ /\ key[n] # None
       /\ ref' = [ref EXCEPT ![n] = h]
       /\ filed' = IF key[n] = x THEN filed \cup {h} ELSE filed
       /\ UNCHANGED key
    \/ /\ key[n] = None
       /\ \/ /\ key' = [key EXCEPT ![n] = x]
             /\ ref' = [ref EXCEPT ![n] = h]
             /\ filed' = filed \cup {h}
          \/ /\ Torn
             /\ \E u \in Thread \ {t} : pc[u] \in {"copying", "looping"}
             /\ UNCHANGED <<key, ref, filed>>

(* Mutant: generateHandler does not look again once it has the lock.        *)
Generate_noRecheck(t) ==
    \E h \in Handler :
        /\ pc[t] = "generating"
        /\ pc' = [pc EXCEPT ![t] = "invoking"]
        /\ topic[h] = None
        /\ topic' = [topic EXCEPT ![h] = call[t].cur]
        /\ Put(t, call[t].cur, h)
        /\ call' = [call EXCEPT ![t].handler = h]
        /\ UNCHANGED <<sessions, subscribed, leaked, name, status>>

(* generateHandler, under the factory's lock.                               *)
Generate(t) ==
    LET x == call[t].cur
        n == name[x]
        races(u) == u # t /\ pc[u] = "copying" /\ key[n] = None
        calls(h) == [u \in Thread |->
                        IF u = t THEN [call[u] EXCEPT !.handler = h]
                        ELSE [call[u] EXCEPT !.raced = @ \/ races(u)]]
    IN  /\ pc[t] = "generating"
        /\ pc' = [pc EXCEPT ![t] = "invoking"]
        /\ \/ /\ ref[n] # None
              /\ call' = [call EXCEPT ![t].handler = ref[n]]
              /\ UNCHANGED <<key, ref, topic, filed>>
           \/ \E h \in Handler :
              /\ ref[n] = None
              /\ topic[h] = None
              /\ topic' = [topic EXCEPT ![h] = x]
              /\ Put(t, x, h)
              /\ call' = calls(h)
        /\ UNCHANGED <<sessions, subscribed, leaked, name, status>>

-----------------------------------------------------------------------------
(* NatsHandler, each method under the handler's lock.                       *)

Finish(t) ==
    /\ pc[t] = "invoking"
    /\ pc' = [pc EXCEPT ![t] = "looping"]
    /\ call' = [call EXCEPT ![t].cur = None, ![t].handler = None]

(* register: subscribe, and only then sessions.add. subscribe may throw     *)
(* before the library is reached, when there is no connection, or after the *)
(* library has filed the handler in its map, which it does first: nobody    *)
(* knows the id of that subscription, and nothing takes it out again.       *)
Register(t) ==
    LET h == call[t].handler IN
    /\ call[t].op = "subscribe"
    /\ Finish(t)
    /\ \/ /\ subscribed' = subscribed \cup {h}
          /\ sessions' = [sessions EXCEPT ![h] = @ \cup {t[1]}]
          /\ UNCHANGED leaked
       \/ /\ h \notin subscribed
          /\ leaked' \in {leaked, leaked \cup {h}}
          /\ UNCHANGED <<subscribed, sessions>>
    /\ UNCHANGED <<key, ref, topic, name, filed, status>>

(* Mutant: any session that leaves unsubscribes the handler.                *)
Disregister_noSizeCheck(t) ==
    LET h == call[t].handler IN
    /\ call[t].op # "subscribe"
    /\ Finish(t)
    /\ sessions' = [sessions EXCEPT ![h] = @ \ {t[1]}]
    /\ subscribed' = IF t[1] \in sessions[h] THEN subscribed \ {h} ELSE subscribed
    /\ UNCHANGED <<key, ref, topic, leaked, name, filed, status>>

(* Mutant: the session leaves the set only after unsubscribe has succeeded. *)
Disregister_removeLast(t) ==
    LET h == call[t].handler
        rest == sessions[h] \ {t[1]}
    IN  /\ call[t].op # "subscribe"
        /\ Finish(t)
        /\ \/ UNCHANGED <<sessions, subscribed>>
           \/ /\ sessions' = [sessions EXCEPT ![h] = rest]
              /\ subscribed' = IF rest = {} THEN subscribed \ {h} ELSE subscribed
        /\ UNCHANGED <<key, ref, topic, leaked, name, filed, status>>

(* disregister: the last session to leave unsubscribes. unsubscribe may     *)
(* throw, after the session is gone from the set.                           *)
Disregister(t) ==
    LET h == call[t].handler
        rest == sessions[h] \ {t[1]}
    IN  /\ call[t].op # "subscribe"
        /\ Finish(t)
        /\ sessions' = [sessions EXCEPT ![h] = rest]
        /\ \/ UNCHANGED subscribed
           \/ /\ t[1] \in sessions[h]
              /\ rest = {}
              /\ subscribed' = subscribed \ {h}
        /\ UNCHANGED <<key, ref, topic, leaked, name, filed, status>>

-----------------------------------------------------------------------------
(* The garbage collector.                                                   *)

(* Mutant: the values of the map are strong references.                     *)
HandlerReachable_strongMap(h) ==
    \/ h \in subscribed \cup leaked
    \/ \E n \in Name : ref[n] = h
    \/ \E t \in Thread : call[t].handler = h

(* A handler is reached from the map of the NATS connection and from local  *)
(* variables, not from the registry, whose values are weak references.      *)
HandlerReachable(h) ==
    \/ h \in subscribed \cup leaked
    \/ \E t \in Thread : call[t].handler = h

(* Mutant: a handler keeps the name of its topic, not the Topic object.     *)
TopicReachable_nameKept(x) == \E t \in Thread : x \in call[t].held \/ x = call[t].cur

(* A Topic is reached from local variables and from live handlers, not from *)
(* the map, whose keys are weak.                                            *)
TopicReachable(x) ==
    \/ \E t \in Thread : x \in call[t].held \/ x = call[t].cur
    \/ \E h \in Handler : topic[h] = x

CollectHandler(h) ==
    /\ topic[h] # None
    /\ ~HandlerReachable(h)
    /\ topic' = [topic EXCEPT ![h] = None]
    /\ sessions' = [sessions EXCEPT ![h] = {}]
    /\ ref' = [n \in Name |-> IF ref[n] = h THEN None ELSE ref[n]]
    /\ filed' = filed \ {h}
    /\ UNCHANGED <<key, subscribed, leaked, name, status, pc, call>>

(* The entry of a collected key goes with its value, which may refer to a   *)
(* handler that lives on.                                                   *)
CollectTopic(x) ==
    /\ name[x] # None
    /\ ~TopicReachable(x)
    /\ name' = [name EXCEPT ![x] = None]
    /\ key' = [n \in Name |-> IF key[n] = x THEN None ELSE key[n]]
    /\ ref' = [n \in Name |-> IF key[n] = x THEN None ELSE ref[n]]
    /\ UNCHANGED <<topic, sessions, subscribed, leaked, filed, status, pc, call>>

-----------------------------------------------------------------------------
Ask(s) ==
    Subscribe(s) \/ Unsubscribe(s) \/ UnsubscribeType(s) \/ UnsubscribeAll(s)

Run(t) ==
    \/ StartPass(t) \/ CopyDone(t) \/ CopyThrow(t) \/ Return(t)
    \/ Fetch(t) \/ Generate(t) \/ Register(t) \/ Disregister(t)

Next ==
    \/ \E s \in Session : Ask(s) \/ OnClose(s)
    \/ \E t \in Thread : Run(t)
    \/ \E h \in Handler : CollectHandler(h)
    \/ \E x \in Topic : CollectTopic(x)

Spec == Init /\ [][Next]_vars

(* A thread that runs keeps running, the NATS server answers or fails, and  *)
(* the collector finds what is unreachable in the end.                      *)
Fairness ==
    /\ \A t \in Thread : WF_vars(Run(t))
    /\ \A h \in Handler : WF_vars(CollectHandler(h))
    /\ \A x \in Topic : WF_vars(CollectTopic(x))

FairSpec == Spec /\ Fairness

-----------------------------------------------------------------------------
(* Properties.                                                             *)

(* A handler filed under its own topic stays findable: as long as it lives, *)
(* the entry for its topic has the handler's own key object and yields the  *)
(* handler, whatever the collector does. (The reason HandlerFactory keys    *)
(* the WeakHashMap by an object its value holds, TopicManager.java:118-119.)*)
FiledFindable ==
    \A h \in filed :
        \E n \in Name : key[n] = topic[h] /\ ref[n] = h /\ name[topic[h]] = n

(* A handler that has sessions is subscribed at NATS: register subscribes   *)
(* before it adds, disregister removes before it unsubscribes.              *)
SubscribedWhileSessions ==
    \A h \in Handler : sessions[h] # {} => h \in subscribed

(* No handler that has sessions is ever reclaimed: the registry's weak      *)
(* references lose no registration, as long as the connection that holds    *)
(* the handlers is not replaced.                                            *)
NoLostHandler ==
    [][\A h \in Handler :
          topic[h] # None /\ topic'[h] # topic[h] => sessions[h] = {}]_vars

(* When unsubscribeAll returns, and no put raced the copy of its key set,   *)
(* the session is in no handler that is filed under its own topic.          *)
UnsubscribeAllCompletes ==
    [][\A s \in Session :
          LET t == <<s, "onMessage">> IN
          /\ call[t].op = "unsubscribeAll" /\ ~call[t].raced
          /\ pc[t] = "looping" /\ pc'[t] = "idle"
          => \A h \in filed : s \notin sessions[h]]_vars

(* A session whose onClose returned after its last onMessage, and met no    *)
(* put while it copied the key set, is in no handler filed under its topic. *)
ClosedIsForgotten ==
    \A s \in Session :
        status[s] = "closed" => \A h \in filed : s \notin sessions[h]

(* README.md:4: "There will be just one handler to communicate with NATS    *)
(* server shared by any number of sessions which subscribe the same topic." *)
OneHandlerPerTopic ==
    \A g, h \in subscribed : name[topic[g]] = name[topic[h]] => g = h

(* The parts of the inductive invariant. A key of the map is a live object  *)
(* of the entry's name, and so is the topic of the handler it yields.       *)
EntriesAlive ==
    \A n \in Name :
        /\ key[n] # None => name[key[n]] = n
        /\ ref[n] # None =>
              /\ key[n] # None
              /\ topic[ref[n]] # None
              /\ name[topic[ref[n]]] = n

(* A live handler keeps its topic alive; a free one has nothing.            *)
HandlersAlive ==
    \A h \in Handler :
        /\ topic[h] # None => name[topic[h]] # None
        /\ topic[h] = None => sessions[h] = {} /\ h \notin subscribed \cup leaked

(* What a handler is filed under is its own key, and yields it.             *)
FiledUnderOwnKey ==
    \A h \in filed :
        /\ topic[h] # None
        /\ key[name[topic[h]]] = topic[h]
        /\ ref[name[topic[h]]] = h

(* Local variables refer to live objects, the topics of a subscribe request *)
(* are those it asked for, and a loop variable has the handler of its name. *)
ThreadAlive(t) ==
    LET c == call[t] IN
    /\ \A x \in c.held : name[x] # None
    /\ c.todo \subseteq c.held
    /\ c.op = "subscribe" => c.left = {} /\ \A x \in c.held : name[x] \in c.want
    /\ c.op = "unsubscribeType" => \A x \in c.todo : name[x] \in c.want
    /\ pc[t] = "idle" <=> c.op = "none"
    /\ pc[t] = "copying" => c.op # "subscribe"
    /\ pc[t] \in {"generating", "invoking"} =>
          /\ c.cur \in c.held
          /\ c.op = "unsubscribeType" => name[c.cur] \in c.want
    /\ pc[t] \notin {"generating", "invoking"} => c.cur = None
    /\ pc[t] = "invoking" =>
          /\ c.handler # None
          /\ topic[c.handler] # None
          /\ name[topic[c.handler]] = name[c.cur]
    /\ pc[t] # "invoking" => c.handler = None

LocalsAlive == \A t \in Thread : ThreadAlive(t)

Alive ==
    /\ TypeOK
    /\ EntriesAlive
    /\ HandlersAlive
    /\ FiledUnderOwnKey
    /\ LocalsAlive
    /\ SubscribedWhileSessions

(* Leaving. The whole key set is copied when an unsubscribeAll is through   *)
(* with its copy and no put raced it: what it has yet to leave are the      *)
(* handlers of the keys to come, and of the one in hand. A session that is  *)
(* closed with no message under way registers no more.                      *)
Leaving(t) ==
    /\ call[t].op = "unsubscribeAll" /\ call[t].left = {}
    /\ ~call[t].raced /\ pc[t] # "copying"
    /\ t[2] = "onClose" => ~ConcurrentClose
    => \A h \in filed : t[1] \in sessions[h] =>
          \/ topic[h] \in call[t].todo
          \/ pc[t] = "generating" /\ topic[h] = call[t].cur
          \/ pc[t] = "invoking" /\ h = call[t].handler

Closing(s) ==
    /\ call[<<s, "onClose">>].op \in {"none", "unsubscribeAll"}
    /\ pc[<<s, "onClose">>] # "idle" => status[s] # "open"
    /\ status[s] # "open" /\ ~ConcurrentClose => pc[<<s, "onMessage">>] = "idle"
    /\ status[s] = "closed" /\ ~ConcurrentClose => \A h \in filed : s \notin sessions[h]

LeavingInv == (\A t \in Thread : Leaving(t)) /\ (\A s \in Session : Closing(s))

(* The inductive invariant.                                                 *)
Inv == Alive /\ LeavingInv

(* What the registry promises: Registrations, with a session registered for *)
(* a name when some handler of a topic with that name has it in its set.    *)
Registered(s, n) ==
    \E h \in Handler : s \in sessions[h] /\ topic[h] # None /\ name[topic[h]] = n

Pairs == {p \in Session \X Name : Registered(p[1], p[2])}

OpOf == [t \in Thread |-> call[t].op]

WantOf == [t \in Thread |-> call[t].want]

Abstract == INSTANCE Registrations WITH reg <- Pairs, op <- OpOf, want <- WantOf

(* The registry implements the abstract registrations: the weak map, its    *)
(* races and the collector neither make nor lose a registration.            *)
RegistrySpec == Abstract!Spec

(* Every request ends: no loop over topics runs for ever, whatever other    *)
(* threads and the collector do to the map. (A new handler needs a free     *)
(* member of the bounded set Handler.)                                      *)
RequestsFinish ==
    <>[](\E h \in Handler : topic[h] = None)
        => \A t \in Thread : pc[t] # "idle" ~> pc[t] = "idle"

(* Once all is quiet and no handler is subscribed, the map drains, as       *)
(* TopicManagerTest.java:40-44 expects of the weak references: what stays   *)
(* is the topic of a handler that a subscribe which threw has left in the   *)
(* connection's map.                                                        *)
MapDrains ==
    <>[](subscribed = {} /\ \A t \in Thread : pc[t] = "idle")
        => <>[](/\ Keys \subseteq {topic[h] : h \in leaked}
                /\ \A x \in Topic :
                      name[x] # None => \E h \in leaked : topic[h] = x)
=============================================================================
