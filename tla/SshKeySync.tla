----------------------------- MODULE SshKeySync -----------------------------
(***************************************************************************)
(* SSH keys of the shared interactive TPUs.  Users upload a key request;   *)
(* every 5 min the scheduler appends the requested keys to the ssh-keys    *)
(* metadata of every node and deletes the requests it has served.  An      *)
(* admin command spreads all keys it finds over the nodes.  Both read a    *)
(* node's metadata, extend it, and write the whole value back.             *)
(*                                                                         *)
(* A metadata value is a set of lines; the order of lines, of nodes and of *)
(* requests, and the types and comments of keys, are left out.             *)
(***************************************************************************)
EXTENDS Integers

CONSTANTS
    Nodes,       \* config.interactive_tpus
    Users, Keys, \* user names and key blobs
    Strange,     \* lines that do not parse as a user and a key
    Present,     \* bound: lines that may be there from the beginning
    Added,       \* what an admin hands to the command with --add
    Overlap,     \* may a sync pass and an admin command run side by side?
    Reupload,    \* may a user replace a request that is still pending?
    MaxUploads, MaxCommands, MaxFaults   \* bounds

Identity == Users \X Keys          \* ssh_key_identity
Line     == Identity \cup Strange
Content  == Keys \cup {"none", "bad"}

ASSUME KeyAssumption ==
    /\ Added \subseteq Identity /\ Present \subseteq Line
    /\ "none" \notin Keys /\ "bad" \notin Keys
    /\ Overlap \in BOOLEAN /\ Reupload \in BOOLEAN
    /\ MaxUploads \in Nat /\ MaxCommands \in Nat /\ MaxFaults \in Nat

VARIABLES
    metadata,    \* the ssh-keys value of each node
    requests,    \* content of ssh-key-requests/<user>.pub, or "none"
    \* the sync pass of the scheduler
    at,          \* "idle", "pass", "reject", "nodes" or "write"
    listed,      \* users whose requests are still to be read
    serving,     \* the user and the key being provisioned
    nodes,       \* nodes still to be visited for it
    target,      \* the node about to be written, if any, as a set
    lines,       \* ... and the lines read from it
    everywhere,  \* provisioned_everywhere
    \* the admin command
    command,     \* "off", "read" or "append"
    scope,       \* the nodes that match --version
    todo,        \* those still to be read or written
    seen,        \* the lines read from each
    unreadable,  \* those that could not be read
    exitCode,
    uploads, commands, faults            \* spent budgets

visit     == <<target, lines>>
syncVars  == <<at, listed, serving, nodes, visit, everywhere>>
adminVars == <<command, scope, todo, seen, unreadable, exitCode>>
spent     == <<uploads, commands>>
vars      == <<metadata, requests, syncVars, adminVars, spent, faults>>

IsFault == faults < MaxFaults /\ faults' = faults + 1
NoFault == UNCHANGED faults

(* The whole value is written.  A call that fails may have taken effect.   *)
Write(n, value) == metadata' = [metadata EXCEPT ![n] = value]
WriteFails(n, value) == IsFault /\ (Write(n, value) \/ UNCHANGED metadata)

-----------------------------------------------------------------------------
(* tpu interactive add-key.  Only other tools upload what is no key.       *)
Upload(u, c) ==
    /\ uploads < MaxUploads /\ uploads' = uploads + 1
    /\ requests[u] = "none" \/ Reupload
    /\ requests' = [requests EXCEPT ![u] = c]
    /\ UNCHANGED <<metadata, syncVars, adminVars, commands, faults>>

-----------------------------------------------------------------------------
(* sync_interactive_ssh_key_requests.  A list that fails is an empty one.  *)
ListRequests ==
    /\ at = "idle" /\ at' = "pass"
    /\ Overlap \/ command = "off"
    /\ \/ NoFault /\ listed' = {u \in Users : requests[u] # "none"}
       \/ IsFault /\ listed' = {}
    /\ UNCHANGED <<metadata, requests, serving, nodes, visit, everywhere,
                   adminVars, spent>>

(* normalized_key_entry accepts it. *)
IsPresent(c) == c # "none"
IsKey(c)     == c \in Keys

ReadRequest(u) ==
    /\ at = "pass" /\ u \in listed
    /\ listed' = listed \ {u}
    /\ \/ /\ requests[u] # "none" /\ NoFault
          /\ serving' = <<u, requests[u]>>
          /\ at' = IF IsKey(requests[u]) THEN "nodes" ELSE "reject"
          /\ nodes' = Nodes /\ everywhere' = TRUE
       \/ /\ (requests[u] = "none" /\ NoFault) \/ IsFault
          /\ UNCHANGED <<serving, at, nodes, everywhere>>
    /\ UNCHANGED <<metadata, requests, visit, adminVars, spent>>

DeleteRequest ==
    \/ NoFault /\ requests' = [requests EXCEPT ![serving[1]] = "none"]
    \/ IsFault /\ UNCHANGED requests

RejectRequest ==
    /\ at = "reject" /\ at' = "pass"
    /\ DeleteRequest
    /\ UNCHANGED <<metadata, listed, serving, nodes, visit, everywhere,
                   adminVars, spent>>

(* A node that cannot be read keeps the request for the next pass. *)
UnreadableIsEmpty(n) ==
    /\ at' = "write" /\ target' = {n} /\ lines' = {}
    /\ UNCHANGED everywhere

SkipUnreadable(n) == everywhere' = FALSE /\ UNCHANGED <<at, visit>>

ReadNode(n) ==
    /\ at = "nodes" /\ n \in nodes
    /\ nodes' = nodes \ {n}
    /\ \/ /\ serving \in metadata[n] /\ NoFault
          /\ UNCHANGED <<at, visit, everywhere>>
       \/ /\ serving \notin metadata[n] /\ NoFault
          /\ at' = "write" /\ target' = {n} /\ lines' = metadata[n]
          /\ UNCHANGED everywhere
       \/ IsFault /\ SkipUnreadable(n)
    /\ UNCHANGED <<metadata, requests, listed, serving, adminVars, spent>>

(* And so does one that cannot be written. *)
AfterFailureAsBefore == everywhere
AfterFailure         == FALSE

WriteNode(n) ==
    /\ at = "write" /\ at' = "nodes"
    /\ target' = {} /\ lines' = {}
    /\ \/ NoFault /\ Write(n, lines \cup {serving}) /\ UNCHANGED everywhere
       \/ WriteFails(n, lines \cup {serving}) /\ everywhere' = AfterFailure
    /\ UNCHANGED <<requests, listed, serving, nodes, adminVars, spent>>

CompleteRequest ==
    /\ at = "nodes" /\ nodes = {} /\ at' = "pass"
    /\ \/ everywhere /\ DeleteRequest
       \/ ~everywhere /\ NoFault /\ UNCHANGED requests
    /\ UNCHANGED <<metadata, listed, serving, nodes, visit, everywhere,
                   adminVars, spent>>

(* The local variables of a pass go with it. *)
Leave ==
    /\ at' = "idle" /\ listed' = {} /\ serving' = <<>> /\ nodes' = {}
    /\ target' = {} /\ lines' = {} /\ everywhere' = TRUE
    /\ UNCHANGED <<metadata, requests, adminVars, spent>>

EndPass == at = "pass" /\ listed = {} /\ NoFault /\ Leave

(* The scheduler dies, or an exception ends the iteration. *)
BreakOff == at # "idle" /\ IsFault /\ Leave

-----------------------------------------------------------------------------
(* tpu admin ssh-keys --yes: reads every node, then appends to each what   *)
(* another node or --add has and it lacks.                                 *)
StartCommand(ns) ==
    /\ command = "off" /\ command' = "read"
    /\ Overlap \/ at = "idle"
    /\ commands < MaxCommands /\ commands' = commands + 1
    /\ scope' = ns /\ todo' = ns /\ exitCode' = 0
    /\ UNCHANGED <<metadata, requests, syncVars, seen, unreadable, uploads, faults>>

Inventory(n) ==
    /\ command = "read" /\ n \in todo
    /\ todo' = todo \ {n}
    /\ \/ /\ NoFault /\ seen' = [seen EXCEPT ![n] = metadata[n]]
          /\ UNCHANGED <<unreadable, exitCode>>
       \/ /\ IsFault /\ unreadable' = unreadable \cup {n} /\ exitCode' = 1
          /\ UNCHANGED seen
    /\ UNCHANGED <<metadata, requests, syncVars, command, scope, spent>>

Union      == ((UNION {seen[n] : n \in scope}) \cap Identity) \cup Added
Lacking(n) == Union \ seen[n]

Plan ==
    /\ command = "read" /\ todo = {} /\ command' = "append"
    /\ todo' = {n \in scope \ unreadable : Lacking(n) # {}}
    /\ UNCHANGED <<metadata, requests, syncVars, scope, seen, unreadable,
                   exitCode, spent, faults>>

ExitAsBefore     == exitCode
ExitAfterFailure == 1

Append(n) ==
    /\ command = "append" /\ n \in todo
    /\ todo' = todo \ {n}
    /\ \/ NoFault /\ Write(n, seen[n] \cup Lacking(n)) /\ UNCHANGED exitCode
       \/ WriteFails(n, seen[n] \cup Lacking(n)) /\ exitCode' = ExitAfterFailure
    /\ UNCHANGED <<requests, syncVars, command, scope, seen, unreadable, spent>>

EndCommand ==
    /\ command = "append" /\ todo = {} /\ command' = "off"
    /\ scope' = {} /\ seen' = [n \in Nodes |-> {}] /\ unreadable' = {}
    /\ UNCHANGED <<metadata, requests, syncVars, todo, exitCode, spent, faults>>

-----------------------------------------------------------------------------
Init ==
    /\ metadata \in [Nodes -> SUBSET Present]
    /\ requests = [u \in Users |-> "none"]
    /\ at = "idle" /\ listed = {} /\ serving = <<>> /\ nodes = {}
    /\ target = {} /\ lines = {} /\ everywhere = TRUE
    /\ command = "off" /\ scope = {} /\ todo = {} /\ exitCode = 0
    /\ seen = [n \in Nodes |-> {}] /\ unreadable = {}
    /\ uploads = 0 /\ commands = 0 /\ faults = 0

SyncPass ==
    \/ (\E u \in listed : ReadRequest(u)) \/ RejectRequest
    \/ (\E n \in nodes : ReadNode(n)) \/ (\E n \in target : WriteNode(n))
    \/ CompleteRequest \/ EndPass

Command ==
    \/ (\E n \in todo : Inventory(n) \/ Append(n)) \/ Plan \/ EndCommand

Next ==
    \/ \E u \in Users, c \in Content \ {"none"} : Upload(u, c)
    \/ ListRequests \/ SyncPass \/ BreakOff
    \/ (\E ns \in (SUBSET Nodes) \ {{}} : StartCommand(ns)) \/ Command

Spec == Init /\ [][Next]_vars

(* The loop of the scheduler comes back to the requests, and a command     *)
(* ends: every call has a timeout.                                         *)
FairSpec ==
    Spec /\ WF_vars(SyncPass) /\ SF_vars(ListRequests) /\ WF_vars(Command)

-----------------------------------------------------------------------------
(***************************************************************************)
(* Properties                                                              *)
(***************************************************************************)
TypeOK ==
    /\ metadata \in [Nodes -> SUBSET Line]
    /\ requests \in [Users -> Content]
    /\ at \in {"idle", "pass", "reject", "nodes", "write"}
    /\ listed \subseteq Users /\ nodes \subseteq Nodes
    /\ at \in {"nodes", "write"} => serving \in Identity
    /\ at = "reject" => serving \in Users \X {"bad"}
    /\ target \subseteq Nodes /\ lines \subseteq Line /\ everywhere \in BOOLEAN
    /\ command \in {"off", "read", "append"}
    /\ scope \subseteq Nodes /\ todo \subseteq scope /\ unreadable \subseteq scope
    /\ seen \in [Nodes -> SUBSET Line] /\ exitCode \in {0, 1}
    /\ uploads \in Nat /\ commands \in Nat /\ faults \in Nat

(* Keys are only appended, never removed (README.md:190), although each    *)
(* write replaces a value that was read earlier; and a line that does not  *)
(* parse is not carried to another node (scheduler.py:606-623,             *)
(* cli.py:1116-1118, 1161-1162).                                           *)
KeysOnlyAppended ==
    [][\A n \in Nodes : /\ metadata[n] \subseteq metadata'[n]
                        /\ metadata'[n] \ metadata[n] \subseteq Identity]_vars

(* A request for a key is deleted only when the key is on every node: one  *)
(* that could not be read or written keeps it alive (scheduler.py:585-588, *)
(* 610-629).                                                               *)
ServedMeansEverywhere ==
    [][\A u \in Users : requests[u] \in Keys /\ requests'[u] = "none" =>
           \A n \in Nodes : <<u, requests[u]>> \in metadata[n]]_vars

(* A command that exits with 0 leaves every node it looked at with every   *)
(* key any of them had, and with those added (cli.py:1104-1167).           *)
ZeroMeansSpread ==
    [][command = "append" /\ command' = "off" /\ exitCode = 0 =>
           \A n \in scope : Union \subseteq metadata[n]]_vars

(* A requested key is eventually on every node at once, however many       *)
(* passes break off or fail in part (scheduler.py:576-631).                *)
RequestsServed ==
    \A u \in Users : \A k \in Keys :
        requests[u] = k ~> \A n \in Nodes : <<u, k>> \in metadata[n]
=============================================================================
