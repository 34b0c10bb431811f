----------------------------- MODULE NameServer -----------------------------
(***************************************************************************)
(* The name server of name_server.c: name_server_main, its name map and   *)
(* the client wrappers RegisterAs, WhoIs and name_server_exit.            *)
(*                                                                         *)
(* The map is nodes[] linked into one intrusive queue of queue.c (nm, as  *)
(* in Queue) with node_data[] as ename and etid.  Kernel IPC is abstracted *)
(* as in ClockServer: sendq is the server's send queue in arrival order,  *)
(* and one iteration of the receive loop (Receive, the case, Reply) is    *)
(* one step.  Names are C strings, sequences of bytes ending in NUL, and  *)
(* are copied and compared by the string.c routines of CString.           *)
(***************************************************************************)
EXTENDS Queue, CString, Integers

CONSTANTS
    Clients,      \* tids of the tasks calling RegisterAs and WhoIs
    Exiters,      \* tids of the tasks calling name_server_exit once
    Names,        \* the names they pass, NUL-terminated byte sequences
    MaxNames,     \* NAME_SERVER_MAX_NAMES, the size of nodes[]
    MaxNameLen,   \* NAME_SERVER_MAX_NAME_LEN
    MaxRegs       \* bound on the RegisterAs calls of a behaviour

\* tid 1 is the idle task and tid 2 the name server itself (main.c,
\* name_server.h): neither calls the wrappers.
ASSUME (Clients \cup Exiters) \cap {1, 2} = {}
ASSUME \A nm \in Names : nm[Len(nm)] = 0

Tasks == Clients \cup Exiters
Nodes == 0..MaxNames-1
NoTid == -1

\* The value WhoIs reads as "not registered yet".
NotFound == 1

VARIABLES
    nm,           \* the map's queue: [qs, nxt] over Nodes
    ename,        \* node_data[i].name
    etid,         \* node_data[i].tid
    srv,          \* "serve" or "exited"
    sendq, pc, msg, rep,
    arg,          \* ghost: the name argument of each task's current call
    latest,       \* ghost: the tid of the last REG handled for each name
    regs          \* ghost: RegisterAs calls so far

serverVars == <<nm, ename, etid, srv>>
vars == <<serverVars, sendq, pc, msg, rep, arg, latest, regs>>

\* A name field of NAME_SERVER_MAX_NAME_LEN bytes.
ZeroName == [i \in 1..MaxNameLen |-> 0]

\* name_server_msg_t; name_server_msg_init copies the name with strncpy,
\* which writes all MaxNameLen bytes of the field.
Msg(type, name) == [type |-> type, name |-> strncpy(ZeroName, name, MaxNameLen)]

\* name_map_init: an empty queue, every entry with an empty name and tid 0.
Init ==
    /\ nm = [qs |-> [q \in {"names"} |-> QueueInit], nxt |-> [i \in Nodes |-> NULL]]
    /\ ename = [i \in Nodes |-> ZeroName]
    /\ etid = [i \in Nodes |-> 0]
    /\ srv = "serve"
    /\ sendq = <<>>
    /\ pc = [t \in Tasks |-> "ready"]
    /\ msg = [t \in Tasks |-> [type |-> "NONE", name |-> ZeroName]]
    /\ rep = [t \in Tasks |-> 0]
    /\ arg = [t \in Tasks |-> ZeroName]
    /\ latest = [n \in Names |-> NoTid]
    /\ regs = 0

Send(t, m) ==
    /\ sendq' = Append(sendq, t)
    /\ pc' = [pc EXCEPT ![t] = "send_wait"]
    /\ msg' = [msg EXCEPT ![t] = m]

Sender == Head(sendq)

\* Mutant: the insertion appends the new node instead of pushing it.
name_map_insert_back(m, en, et, name, tid) ==
    LET new_node == m.qs["names"].elements IN
    [nm    |-> queue_put(m, "names", new_node),
     ename |-> [en EXCEPT ![new_node] = strncpy(@, name, MaxNameLen)],
     etid  |-> [et EXCEPT ![new_node] = tid]]

\* name_map_insert: the next unused node is nodes[queue_size]; its entry
\* gets the name and tid and it is pushed at the front, so that a later
\* registration of a name hides the earlier ones.  Returns the new map.
name_map_insert(m, en, et, name, tid) ==
    LET new_node == m.qs["names"].elements IN
    [nm    |-> queue_put_front(m, "names", new_node),
     ename |-> [en EXCEPT ![new_node] = strncpy(@, name, MaxNameLen)],
     etid  |-> [et EXCEPT ![new_node] = tid]]

\* Mutant: only the front node is looked at.
FindFrom_front_only(m, en, node, name) ==
    IF node = NULL THEN NULL
    ELSE IF strncmp(en[node], name, MaxNameLen) = 0 THEN node ELSE NULL

\* name_map_find's walk from node along the next links to NULL: the first
\* node whose name strncmp finds equal, or NULL.
RECURSIVE FindFrom(_, _, _, _)
FindFrom(m, en, node, name) ==
    IF node = NULL THEN NULL
    ELSE IF strncmp(en[node], name, MaxNameLen) = 0 THEN node
    ELSE FindFrom(m, en, m.nxt[node], name)

name_map_find(m, en, name) == FindFrom(m, en, m.qs["names"].front, name)

Reply(t, r) ==
    /\ pc' = [pc EXCEPT ![t] = "replied"]
    /\ rep' = [rep EXCEPT ![t] = r]

\* REG: insert the sender under the name and reply the insertion's result
\* (queue_put_front returns 0 for a node).  nodes[queue_size] lies past
\* nodes[] once the queue holds MaxNames nodes; the model follows the
\* server only while it does not (RegistrationsFit is about that state).
HandleReg ==
    LET s == Sender
        r == name_map_insert(nm, ename, etid, msg[s].name, s)
    IN
    /\ msg[s].type = "REG"
    /\ nm.qs["names"].elements < MaxNames
    /\ nm' = r.nm /\ ename' = r.ename /\ etid' = r.etid
    /\ Reply(s, 0)
    /\ latest' = [latest EXCEPT ![arg[s]] = s]
    /\ UNCHANGED srv

\* WHO: reply the tid of the entry found, or 1 if there is none.
HandleWho ==
    LET s == Sender
        e == name_map_find(nm, ename, msg[s].name)
    IN
    /\ msg[s].type = "WHO"
    /\ Reply(s, IF e = NULL THEN NotFound ELSE etid[e])
    /\ UNCHANGED <<serverVars, latest>>

\* EXIT goes to `default: continue', which jumps to the loop test: the loop
\* ends, the exiter gets the EXIT message back and the server Exits.
\* Senders still queued, and any later Send to tid 2, wait forever: the
\* kernel accepts a Send to an exited task.
HandleExit ==
    /\ msg[Sender].type = "EXIT"
    /\ srv' = "exited"
    /\ Reply(Sender, 0)
    /\ UNCHANGED <<nm, ename, etid, latest>>

\* One iteration of name_server_main's loop.  Receive cannot fail here:
\* every sender sends sizeof(name_server_msg_t), and Reply goes to the
\* tid Receive returned.
ServerStep ==
    /\ srv = "serve" /\ sendq # <<>>
    /\ sendq' = Tail(sendq)
    /\ HandleReg \/ HandleWho \/ HandleExit
    /\ UNCHANGED <<msg, arg, regs>>

\* RegisterAs(name) and WhoIs(name) send their request and block; at
\* most MaxRegs RegisterAs calls happen in a behaviour.
RegisterAs(c, n) ==
    /\ pc[c] = "ready"
    /\ regs < MaxRegs /\ regs' = regs + 1
    /\ Send(c, Msg("REG", n))
    /\ arg' = [arg EXCEPT ![c] = n]
    /\ UNCHANGED <<serverVars, rep, latest>>

WhoIs(c, n) ==
    /\ pc[c] = "ready"
    /\ Send(c, Msg("WHO", n))
    /\ arg' = [arg EXCEPT ![c] = n]
    /\ UNCHANGED <<serverVars, rep, latest, regs>>

name_server_exit(e) ==
    /\ pc[e] = "ready" /\ msg[e].type = "NONE"
    /\ Send(e, [type |-> "EXIT", name |-> ZeroName])
    /\ UNCHANGED <<serverVars, rep, arg, latest, regs>>

\* WhoIs's do-while: a reply of 1 sends the same request again.
Retry(c) ==
    /\ pc[c] = "replied" /\ msg[c].type = "WHO" /\ rep[c] = NotFound
    /\ sendq' = Append(sendq, c)
    /\ pc' = [pc EXCEPT ![c] = "send_wait"]
    /\ UNCHANGED <<serverVars, msg, rep, arg, latest, regs>>

\* Any other reply ends the call: RegisterAs returns 0, WhoIs the tid,
\* name_server_exit nothing.
Return(c) ==
    /\ pc[c] = "replied" /\ ~(msg[c].type = "WHO" /\ rep[c] = NotFound)
    /\ pc' = [pc EXCEPT ![c] = "ready"]
    /\ UNCHANGED <<serverVars, sendq, msg, rep, arg, latest, regs>>

ClientStep(c) == Retry(c) \/ Return(c)

Next ==
    \/ ServerStep
    \/ \E c \in Clients, n \in Names : RegisterAs(c, n) \/ WhoIs(c, n)
    \/ \E e \in Exiters : name_server_exit(e)
    \/ \E t \in Tasks : ClientStep(t)

Spec == Init /\ [][Next]_vars

\* Weak fairness: the server blocks in Receive every iteration and runs
\* when a request is queued; a task inside WhoIs or RegisterAs keeps
\* running its own code (retrying or returning) when ready.
FairSpec ==
    /\ Spec
    /\ WF_vars(ServerStep)
    /\ \A t \in Tasks : WF_vars(ClientStep(t))
-----------------------------------------------------------------------------
(* Properties.                                                             *)

\* The lookup WHO performs for a name gives the tid of the task whose
\* RegisterAs of that name the server handled last ("overwrites previous",
\* name_server.h), and nothing before the first: the front insertion, the
\* first-match walk and the 12-byte copies and compares agree, however
\* registrations of the same and of prefix-sharing names interleave.
MapAgreesWithRegistrations ==
    \A n \in Names :
      LET e == name_map_find(nm, ename, Msg("WHO", n).name) IN
      IF latest[n] = NoTid THEN e = NULL ELSE e # NULL /\ etid[e] = latest[n]

\* A WhoIs of a name that is registered returns (it stops polling), unless
\* the server has exited.
WhoIsReturns ==
    \A c \in Clients, n \in Names :
      (pc[c] = "send_wait" /\ msg[c].type = "WHO" /\ arg[c] = n /\ latest[n] # NoTid)
        ~> (pc[c] = "ready" \/ srv = "exited")

\* RegisterAs "overwrites previous" registrations of the name
\* (name_server.h), so a map of NAME_SERVER_MAX_NAMES nodes should hold
\* that many names: while the names registered, with the one the server
\* receives next, are at most MaxNames, the REG it receives next has a
\* node of nodes[] to go into.  name_map_insert takes nodes[queue_size]
\* for every REG, a re-registration included.
RegistrationsFit ==
    LET s == Sender IN
    /\ srv = "serve" /\ sendq # <<>> /\ msg[s].type = "REG"
    /\ Cardinality({n \in Names : latest[n] # NoTid} \cup {arg[s]}) <= MaxNames
    => nm.qs["names"].elements < MaxNames
=============================================================================
