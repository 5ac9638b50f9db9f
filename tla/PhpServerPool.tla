--------------------------- MODULE PhpServerPool ---------------------------
(***************************************************************************)
(* The pool of `php -S` children (php_server.rs), one per document root,   *)
(* started by the first request for it. The lock of the pool is held while *)
(* a child is started, the 300 ms it gets included. Ports come from a      *)
(* 16-bit counter that starts anew with the process.                       *)
(*                                                                         *)
(* A child that finds its port taken ends by itself; nobody looks at its   *)
(* exit. Children are killed when their handle is dropped, but outlive a   *)
(* gateway that is killed.                                                 *)
(***************************************************************************)
EXTENDS Integers, FiniteSets

CONSTANTS
    Worker,         \* tasks that call ensure_running
    DocRoot,        \* document roots
    Ports,          \* number of values of the port counter: 2^16
    FirstPort,      \* its start: 8091
    MaxChildren,    \* bound: children started
    MaxCrashes,     \* bound: crashes of the gateway
    None            \* no root, no child, no holder

\* What the constants must be.
Parameters ==
    /\ Ports \in Nat \ {0, 1} /\ FirstPort \in 0..(Ports - 1)
    /\ MaxChildren \in Nat /\ MaxCrashes \in Nat
    /\ None \notin DocRoot \cup Worker \cup Int

Child == 1..MaxChildren

Port == 0..(Ports - 1)
VARIABLES
    instances,  \* PhpServerPool.instances: the child of each root, or None
    nextPort,   \* PhpServerPool.next_port
    lock,       \* who holds the lock of the pool, or None
    handler,    \* what each task is doing
    root, port, alive,      \* of each child
    started,    \* children started
    wrapped,    \* history: has the counter come round?
    orphaned,   \* history: has the gateway left children behind?
    crashes     \* bound counter

children == <<root, port, alive, started>>

vars == <<instances, nextPort, lock, handler, children, wrapped, orphaned, crashes>>

Idle == [stage |-> "idle", root |-> None, child |-> None, answer |-> None]

Init ==
    /\ instances = [r \in DocRoot |-> None]
    /\ nextPort = FirstPort
    /\ lock = None
    /\ handler = [w \in Worker |-> Idle]
    /\ root = [c \in Child |-> None] /\ port = [c \in Child |-> 0]
    /\ alive = {} /\ started = 0
    /\ wrapped = FALSE /\ orphaned = FALSE /\ crashes = 0

\* A request for a vhost whose PHP runs in the built-in server.
Call(w) ==
    /\ handler[w].stage = "idle"
    /\ \E r \in DocRoot :
          handler' = [handler EXCEPT ![w].stage = "wait", ![w].root = r]
    /\ UNCHANGED <<instances, nextPort, lock, children, wrapped, orphaned, crashes>>

Answer(w, p) ==
    handler' = [handler EXCEPT ![w].stage = "answered", ![w].child = None,
                               ![w].answer = p]

\* The lock is free, and the root has its server: alive or not, its address is
\* the answer.
Find(w) ==
    LET c == instances[handler[w].root] IN
    /\ handler[w].stage = "wait" /\ lock = None
    /\ c # None
    /\ Answer(w, port[c])
    /\ UNCHANGED <<instances, nextPort, lock, children, wrapped, orphaned, crashes>>

Taken(p) == \E c \in alive : port[c] = p

\* Mutant: the lock is given back before the child is given its time.
SpawnUnlocked(w) ==
    LET c == started + 1 IN
    /\ handler[w].stage = "wait" /\ lock = None
    /\ instances[handler[w].root] = None
    /\ started < MaxChildren
    /\ nextPort' = (nextPort + 1) % Ports
    /\ wrapped' = (wrapped \/ nextPort' < nextPort)
    /\ \/ /\ handler' = [handler EXCEPT ![w] = Idle]
          /\ UNCHANGED <<lock, children>>
       \/ /\ started' = c
          /\ root' = [root EXCEPT ![c] = handler[w].root]
          /\ port' = [port EXCEPT ![c] = nextPort]
          /\ alive' = IF Taken(nextPort) \/ nextPort = 0 THEN alive ELSE alive \cup {c}
          /\ handler' = [handler EXCEPT ![w].stage = "sleep", ![w].child = c]
          /\ UNCHANGED lock
    /\ UNCHANGED <<instances, orphaned, crashes>>

\* Mutant: the port is not used up.
SpawnSamePort(w) ==
    LET c == started + 1 IN
    /\ handler[w].stage = "wait" /\ lock = None
    /\ instances[handler[w].root] = None
    /\ started < MaxChildren
    /\ nextPort' = nextPort
    /\ wrapped' = (wrapped \/ nextPort' < nextPort)
    /\ \/ /\ handler' = [handler EXCEPT ![w] = Idle]
          /\ UNCHANGED <<lock, children>>
       \/ /\ started' = c
          /\ root' = [root EXCEPT ![c] = handler[w].root]
          /\ port' = [port EXCEPT ![c] = nextPort]
          /\ alive' = IF Taken(nextPort) \/ nextPort = 0 THEN alive ELSE alive \cup {c}
          /\ handler' = [handler EXCEPT ![w].stage = "sleep", ![w].child = c]
          /\ lock' = w
    /\ UNCHANGED <<instances, orphaned, crashes>>

\* Else the next port is used up and a child is started; it lives on if it can
\* bind its port (one with port 0 listens where nobody asks it). If it cannot be started the call fails.
Spawn(w) ==
    LET c == started + 1 IN
    /\ handler[w].stage = "wait" /\ lock = None
    /\ instances[handler[w].root] = None
    /\ started < MaxChildren
    /\ nextPort' = (nextPort + 1) % Ports
    /\ wrapped' = (wrapped \/ nextPort' < nextPort)
    /\ \/ /\ handler' = [handler EXCEPT ![w] = Idle]
          /\ UNCHANGED <<lock, children>>
       \/ /\ started' = c
          /\ root' = [root EXCEPT ![c] = handler[w].root]
          /\ port' = [port EXCEPT ![c] = nextPort]
          /\ alive' = IF Taken(nextPort) \/ nextPort = 0 THEN alive ELSE alive \cup {c}
          /\ handler' = [handler EXCEPT ![w].stage = "sleep", ![w].child = c]
          /\ lock' = w
    /\ UNCHANGED <<instances, orphaned, crashes>>

\* 300 ms later; an entry that is replaced would drop its child.
Register(w) ==
    LET r == handler[w].root IN
    /\ handler[w].stage = "sleep"
    /\ instances' = [instances EXCEPT ![r] = handler[w].child]
    /\ alive' = alive \ ({instances[r]} \ {None})
    /\ Answer(w, port[handler[w].child])
    /\ lock' = None
    /\ UNCHANGED <<nextPort, root, port, started, wrapped, orphaned, crashes>>

\* The request goes to the address, and the task is done.
Forwarded(w) ==
    /\ handler[w].stage = "answered"
    /\ handler' = [handler EXCEPT ![w] = Idle]
    /\ UNCHANGED <<instances, nextPort, lock, children, wrapped, orphaned, crashes>>

\* Mutant: a dropped child lives on.
CancelKeepsChild(w) ==
    /\ handler[w].stage \in {"wait", "sleep"}
    /\ handler' = [handler EXCEPT ![w] = Idle]
    /\ lock' = IF lock = w THEN None ELSE lock
    /\ UNCHANGED <<alive, instances, nextPort, root, port, started, wrapped, orphaned,
                   crashes>>

\* The client is gone: the task is dropped, and with it the lock and the child
\* that is not registered yet (kill_on_drop).
Cancel(w) ==
    /\ handler[w].stage \in {"wait", "sleep"}
    /\ alive' = alive \ ({handler[w].child} \ {None})
    /\ handler' = [handler EXCEPT ![w] = Idle]
    /\ lock' = IF lock = w THEN None ELSE lock
    /\ UNCHANGED <<instances, nextPort, root, port, started, wrapped, orphaned, crashes>>

ChildEnds ==
    /\ \E c \in alive : alive' = alive \ {c}
    /\ UNCHANGED <<instances, nextPort, lock, handler, root, port, started, wrapped,
                   orphaned, crashes>>

\* The gateway is killed (only ctrl-c is handled), and starts again.
Crash ==
    /\ crashes < MaxCrashes
    /\ crashes' = crashes + 1
    /\ orphaned' = (orphaned \/ alive # {})
    /\ instances' = [r \in DocRoot |-> None]
    /\ nextPort' = FirstPort
    /\ lock' = None
    /\ handler' = [w \in Worker |-> Idle]
    /\ UNCHANGED <<children, wrapped>>

Next ==
    \/ \E w \in Worker : Call(w) \/ Find(w) \/ Spawn(w) \/ Register(w) \/ Forwarded(w)
                         \/ Cancel(w)
    \/ ChildEnds \/ Crash

Spec == Init /\ [][Next]_vars

-----------------------------------------------------------------------------

\* Every variable has its type, and the task that holds the lock has a child
\* that is not registered yet.
TypeOK ==
    /\ instances \in [DocRoot -> Child \cup {None}]
    /\ nextPort \in Port
    /\ lock \in Worker \cup {None}
    /\ handler \in [Worker -> [stage : {"idle", "wait", "sleep", "answered"},
                               root : DocRoot \cup {None}, child : Child \cup {None},
                               answer : Port \cup {None}]]
    /\ root \in [Child -> DocRoot \cup {None}] /\ port \in [Child -> Port]
    /\ alive \subseteq 1..started /\ started \in 0..MaxChildren
    /\ wrapped \in BOOLEAN /\ orphaned \in BOOLEAN /\ crashes \in 0..MaxCrashes
    /\ \A w \in Worker : handler[w].stage = "sleep" <=> lock = w

\* An address that was answered for a document root is not served by the child
\* of another root, unless children were left behind or the counter has wrapped.
RightRoot ==
    ~wrapped /\ ~orphaned =>
        \A w \in Worker : handler[w].stage = "answered" =>
            \A c \in alive : port[c] = handler[w].answer => root[c] = handler[w].root

\* A child of a living gateway is registered for its root, or its starter is
\* about to register it: there are no two for a root, and none is forgotten.
NoneForgotten ==
    ~orphaned =>
        \A c \in alive : \/ instances[root[c]] = c
                         \/ \E w \in Worker : handler[w].child = c
=============================================================================
