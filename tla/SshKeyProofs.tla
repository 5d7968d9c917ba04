---------------------------- MODULE SshKeyProofs ----------------------------
(***************************************************************************)
(* As long as sync pass and admin command do not run side by side, no key  *)
(* is ever removed, a request is dropped only when its key is everywhere,  *)
(* and a command that exits with 0 has spread every key: what a program is *)
(* about to write back is what is there, because nobody has written since  *)
(* it read.  For any nodes, users and keys, whatever calls fail.           *)
(***************************************************************************)
EXTENDS SshKeySync, TLAPS

(* No command leaves anything to the next one. *)
Types == TypeOK /\ (command = "off" => unreadable = {})

LEMMA PlannedType ==
    ASSUME TypeOK, NEW n \in Nodes
    PROVE  Lacking(n) \subseteq Identity
  BY KeyAssumption DEF Lacking, Union

LEMMA ValuesType ==
    ASSUME TypeOK, NEW n \in Nodes, NEW value \in SUBSET Line,
           Write(n, value) \/ UNCHANGED metadata
    PROVE  /\ metadata' \in [Nodes -> SUBSET Line]
           /\ \A m \in Nodes \ {n} : metadata'[m] = metadata[m]
           /\ metadata'[n] \in {value, metadata[n]}
  BY DEF Write, TypeOK

LEMMA BudgetType ==
    ASSUME TypeOK, NoFault \/ IsFault
    PROVE  faults' \in Nat
  BY DEF TypeOK, NoFault, IsFault

LEMMA SyncTypes ==
    ASSUME Types,
           \/ ListRequests \/ RejectRequest \/ CompleteRequest
           \/ EndPass \/ BreakOff
           \/ \E u \in listed : ReadRequest(u)
           \/ \E n \in nodes : ReadNode(n)
    PROVE  Types' /\ UNCHANGED <<metadata, adminVars>>
<1>1. /\ UNCHANGED <<metadata, adminVars, spent>>
      /\ NoFault \/ IsFault
  BY DEF ListRequests, RejectRequest, CompleteRequest, EndPass, BreakOff, Leave,
     ReadRequest, ReadNode, DeleteRequest
<1>2. faults' \in Nat
  BY <1>1, BudgetType DEF Types
<1>3. CASE ListRequests
  BY <1>1, <1>2, <1>3 DEF Types, TypeOK, ListRequests, visit, adminVars, spent
<1>4. CASE RejectRequest \/ CompleteRequest
  <2>1. serving[1] \in Users /\ at \in {"reject", "nodes"} /\ at' = "pass"
        /\ UNCHANGED <<listed, serving, nodes, visit, everywhere>>
    BY <1>4 DEF RejectRequest, CompleteRequest, Types, TypeOK, Identity
  <2>2. requests' \in [Users -> Content]
    BY <1>4, <2>1 DEF RejectRequest, CompleteRequest, DeleteRequest, Types, TypeOK, Content
  <2> QED
    BY <1>1, <1>2, <2>1, <2>2 DEF Types, TypeOK, visit, adminVars, spent
<1>5. CASE EndPass \/ BreakOff
  BY <1>1, <1>2, <1>5 DEF Types, TypeOK, EndPass, BreakOff, Leave, adminVars, spent
<1>6. CASE \E u \in listed : ReadRequest(u)
  <2>1. PICK u \in listed : ReadRequest(u)
    BY <1>6
  <2>2. u \in Users /\ requests[u] \in Content
    BY DEF Types, TypeOK
  <2>3. requests[u] # "none" =>
           IF IsKey(requests[u]) THEN <<u, requests[u]>> \in Identity
                                 ELSE <<u, requests[u]>> \in Users \X {"bad"}
    BY <2>2 DEF IsKey, Identity, Content
  <2> QED
    BY <1>1, <1>2, <2>1, <2>2, <2>3 DEF Types, TypeOK, ReadRequest, visit, adminVars, spent
<1>7. CASE \E n \in nodes : ReadNode(n)
  BY <1>1, <1>2, <1>7 DEF Types, TypeOK, ReadNode, SkipUnreadable, visit, adminVars, spent
<1> QED
  BY <1>1, <1>3, <1>4, <1>5, <1>6, <1>7

LEMMA CommandTypes ==
    ASSUME Types,
           \/ \E ns \in (SUBSET Nodes) \ {{}} : StartCommand(ns)
           \/ \E n \in todo : Inventory(n)
           \/ Plan \/ EndCommand
    PROVE  Types' /\ UNCHANGED <<metadata, requests, syncVars>>
<1>1. CASE \E ns \in (SUBSET Nodes) \ {{}} : StartCommand(ns)
  BY <1>1 DEF Types, TypeOK, StartCommand, syncVars, visit
<1>2. CASE \E n \in todo : Inventory(n)
  <2>1. PICK n \in todo : Inventory(n)
    BY <1>2
  <2>2. faults' \in Nat
    BY <2>1, BudgetType DEF Inventory, Types
  <2>3. n \in Nodes /\ metadata[n] \in SUBSET Line /\ n \in scope
    BY DEF Types, TypeOK
  <2> QED
    BY <2>1, <2>2, <2>3 DEF Types, TypeOK, Inventory, syncVars, visit, spent
<1>3. CASE Plan
  BY <1>3 DEF Types, TypeOK, Plan, syncVars, visit, spent
<1>4. CASE EndCommand
  BY <1>4 DEF Types, TypeOK, EndCommand, syncVars, visit, spent
<1> QED
  BY <1>1, <1>2, <1>3, <1>4

LEMMA SyncWriteTypes ==
    ASSUME Types, NEW n \in target, WriteNode(n)
    PROVE  /\ Types' /\ n \in Nodes /\ serving \in Identity
           /\ metadata'[n] \in {lines \cup {serving}, metadata[n]}
           /\ \A m \in Nodes \ {n} : metadata'[m] = metadata[m]
           /\ everywhere' => everywhere /\ metadata'[n] = lines \cup {serving}
<1>1. n \in Nodes /\ serving \in Identity
  BY DEF WriteNode, Types, TypeOK
<1> DEFINE value == lines \cup {serving}
<1>2. value \in SUBSET Line
  BY <1>1 DEF Types, TypeOK, Line
<1>3. Write(n, value) \/ UNCHANGED metadata
  BY DEF WriteNode, WriteFails
<1>4. /\ metadata' \in [Nodes -> SUBSET Line]
      /\ \A m \in Nodes \ {n} : metadata'[m] = metadata[m]
      /\ metadata'[n] \in {value, metadata[n]}
  BY <1>1, <1>2, <1>3, ValuesType DEF Types
<1>5. faults' \in Nat
  BY BudgetType DEF WriteNode, WriteFails, Types
<1>6. Types'
  BY <1>1, <1>4, <1>5 DEF Types, TypeOK, WriteNode, AfterFailure, adminVars, spent
<1>7. everywhere' => everywhere /\ metadata'[n] = value
  BY <1>1 DEF WriteNode, AfterFailure, Write, Types, TypeOK
<1> QED
  BY <1>1, <1>4, <1>6, <1>7

LEMMA CommandWriteTypes ==
    ASSUME Types, NEW n \in todo, Append(n)
    PROVE  /\ Types' /\ n \in Nodes /\ Lacking(n) \subseteq Identity
           /\ metadata'[n] \in {seen[n] \cup Lacking(n), metadata[n]}
           /\ \A m \in Nodes \ {n} : metadata'[m] = metadata[m]
           /\ exitCode' = 0 => exitCode = 0 /\ metadata'[n] = seen[n] \cup Lacking(n)
<1>1. n \in Nodes /\ Lacking(n) \subseteq Identity
  BY PlannedType DEF Types, TypeOK
<1> DEFINE value == seen[n] \cup Lacking(n)
<1>2. value \in SUBSET Line
  BY <1>1 DEF Types, TypeOK, Line
<1>3. Write(n, value) \/ UNCHANGED metadata
  BY DEF Append, WriteFails
<1>4. /\ metadata' \in [Nodes -> SUBSET Line]
      /\ \A m \in Nodes \ {n} : metadata'[m] = metadata[m]
      /\ metadata'[n] \in {value, metadata[n]}
  BY <1>1, <1>2, <1>3, ValuesType DEF Types
<1>5. faults' \in Nat
  BY BudgetType DEF Append, WriteFails, Types
<1>6. Types'
  BY <1>1, <1>4, <1>5 DEF Types, TypeOK, Append, ExitAfterFailure, syncVars, visit, spent
<1>7. exitCode' = 0 => exitCode = 0 /\ metadata'[n] = value
  BY <1>1 DEF Append, ExitAfterFailure, Write, Types, TypeOK
<1> QED
  BY <1>1, <1>4, <1>6, <1>7

LEMMA InitTypes == Init => Types
  BY KeyAssumption DEF Init, Types, TypeOK, Content

LEMMA UploadTypes ==
    ASSUME Types, NEW u \in Users, NEW c \in Content \ {"none"}, Upload(u, c)
    PROVE  Types' /\ UNCHANGED <<metadata, syncVars, adminVars>>
  BY DEF Upload, syncVars, visit, adminVars, Types, TypeOK

LEMMA NextTypes ==
    ASSUME Types, [Next]_vars
    PROVE  Types'
<1>1. CASE UNCHANGED vars
  BY <1>1 DEF vars, syncVars, visit, adminVars, spent, Types, TypeOK
<1>2. CASE \E u \in Users, c \in Content \ {"none"} : Upload(u, c)
  BY <1>2, UploadTypes
<1>3. CASE ListRequests \/ SyncPass \/ BreakOff
  BY <1>3, SyncTypes, SyncWriteTypes DEF SyncPass
<1>4. CASE (\E ns \in (SUBSET Nodes) \ {{}} : StartCommand(ns)) \/ Command
  BY <1>4, CommandTypes, CommandWriteTypes DEF Command
<1> QED
  BY <1>1, <1>2, <1>3, <1>4 DEF Next

(* Requests, metadata and the pipelines of both programs keep their shape, *)
(* whether or not the two run side by side: a pass serves only what parsed *)
(* as a key, a command touches only the nodes in its scope                 *)
(* (scheduler.py:576-631, cli.py:1104-1167).                               *)
THEOREM KeyTypesCorrect == Spec => []TypeOK
<1>1. Types => TypeOK
  BY DEF Types
<1> QED
  BY InitTypes, NextTypes, <1>1, PTL DEF Spec

-----------------------------------------------------------------------------
(* What has been read, and not been written back, is still current. *)
ReadIsCurrent ==
    /\ at = "idle" \/ command = "off"
    /\ at = "write" \/ target = {}
    /\ \A n \in target : lines = metadata[n]
    /\ command = "read" =>
          \A n \in scope \ (todo \cup unreadable) : seen[n] = metadata[n]
    /\ command = "append" => \A n \in todo : seen[n] = metadata[n]

Inv == Types /\ ReadIsCurrent

Gains(n) ==
    /\ metadata[n] \subseteq metadata'[n]
    /\ metadata'[n] \ metadata[n] \subseteq Identity

LEMMA InitInv == Init => Inv
  BY InitTypes DEF Init, Inv, ReadIsCurrent

(* Steps that write nothing to a node. *)
LEMMA SyncReads ==
    ASSUME Inv, ~Overlap,
           \/ ListRequests \/ RejectRequest \/ CompleteRequest
           \/ EndPass \/ BreakOff
           \/ \E u \in listed : ReadRequest(u)
           \/ \E n \in nodes : ReadNode(n)
    PROVE  Inv' /\ UNCHANGED metadata
<1>1. Types' /\ UNCHANGED <<metadata, adminVars>>
  BY SyncTypes DEF Inv
<1>2. CASE ListRequests \/ RejectRequest \/ CompleteRequest \/ EndPass \/ BreakOff
  BY <1>1, <1>2 DEF Inv, ReadIsCurrent, ListRequests, RejectRequest, CompleteRequest,
     EndPass, BreakOff, Leave, visit, adminVars
<1>3. CASE (\E u \in listed : ReadRequest(u)) \/ (\E n \in nodes : ReadNode(n))
  BY <1>1, <1>3 DEF Inv, ReadIsCurrent, ReadRequest, ReadNode, SkipUnreadable, visit,
     adminVars
<1> QED
  BY <1>2, <1>3

LEMMA CommandReads ==
    ASSUME Inv, ~Overlap,
           \/ \E ns \in (SUBSET Nodes) \ {{}} : StartCommand(ns)
           \/ \E n \in todo : Inventory(n)
           \/ Plan \/ EndCommand
    PROVE  Inv' /\ UNCHANGED metadata
<1>1. Types' /\ UNCHANGED <<metadata, syncVars>>
  BY CommandTypes DEF Inv
<1>2. CASE (\E ns \in (SUBSET Nodes) \ {{}} : StartCommand(ns)) \/ Plan \/ EndCommand
  BY <1>1, <1>2 DEF Inv, ReadIsCurrent, StartCommand, Plan, EndCommand, syncVars, visit
<1>3. ASSUME NEW n \in todo, Inventory(n) PROVE ReadIsCurrent'
  BY <1>1, <1>3 DEF Inv, Types, TypeOK, ReadIsCurrent, Inventory, syncVars, visit
<1> QED
  BY <1>1, <1>2, <1>3 DEF Inv

LEMMA SyncWrites ==
    ASSUME Inv, ~Overlap, NEW n \in target, WriteNode(n)
    PROVE  Inv' /\ \A m \in Nodes : Gains(m)
<1>1. command = "off" /\ lines = metadata[n]
  BY DEF WriteNode, Inv, ReadIsCurrent
<1>2. \A m \in Nodes : Gains(m)
  BY <1>1, SyncWriteTypes DEF Gains, Inv
<1>3. ReadIsCurrent'
  BY <1>1 DEF Inv, ReadIsCurrent, WriteNode, adminVars
<1> QED
  BY <1>2, <1>3, SyncWriteTypes DEF Inv

LEMMA CommandWrites ==
    ASSUME Inv, ~Overlap, NEW n \in todo, Append(n)
    PROVE  Inv' /\ \A m \in Nodes : Gains(m)
<1>1. command = "append" /\ at = "idle" /\ target = {} /\ seen[n] = metadata[n]
  BY DEF Append, Inv, ReadIsCurrent
<1>2. \A m \in Nodes : Gains(m)
  BY <1>1, CommandWriteTypes DEF Gains, Inv
<1>3. todo' = todo \ {n} /\ UNCHANGED <<command, seen, syncVars>> /\ todo \subseteq Nodes
  BY DEF Append, Inv, Types, TypeOK
<1>4. ReadIsCurrent'
  BY <1>1, <1>3, CommandWriteTypes DEF Inv, ReadIsCurrent, syncVars, visit
<1> QED
  BY <1>2, <1>4, CommandWriteTypes DEF Inv

LEMMA NextInv ==
    ASSUME Inv, ~Overlap, [Next]_vars
    PROVE  Inv' /\ \A n \in Nodes : Gains(n)
<1>1. UNCHANGED metadata => \A n \in Nodes : Gains(n)
  BY DEF Gains
<1>2. CASE UNCHANGED vars
  BY <1>1, <1>2, NextTypes DEF vars, syncVars, visit, adminVars, Inv, ReadIsCurrent
<1>3. ASSUME NEW u \in Users, NEW c \in Content \ {"none"}, Upload(u, c)
      PROVE  Inv' /\ UNCHANGED metadata
  BY <1>3, UploadTypes DEF syncVars, visit, adminVars, Inv, ReadIsCurrent
<1>4. CASE ListRequests \/ SyncPass \/ BreakOff
  BY <1>1, <1>4, SyncReads, SyncWrites DEF SyncPass
<1>5. CASE (\E ns \in (SUBSET Nodes) \ {{}} : StartCommand(ns)) \/ Command
  BY <1>1, <1>5, CommandReads, CommandWrites DEF Command
<1> QED
  BY <1>1, <1>2, <1>3, <1>4, <1>5 DEF Next

(* If pass and command exclude each other, every write to a node keeps the *)
(* keys that are there and adds nothing but keys that parse                *)
(* (scheduler.py:606-623, cli.py:1161-1162), for any number of nodes and   *)
(* users and however many calls fail.                                      *)
THEOREM KeysKept == ASSUME ~Overlap PROVE Spec => KeysOnlyAppended
<1>1. Inv /\ [Next]_vars => Inv'
  BY NextInv
<1>2. Inv /\ [Next]_vars =>
         [\A n \in Nodes : /\ metadata[n] \subseteq metadata'[n]
                           /\ metadata'[n] \ metadata[n] \subseteq Identity]_vars
  BY NextInv DEF Gains
<1> QED
  BY InitInv, <1>1, <1>2, PTL DEF Spec, KeysOnlyAppended

-----------------------------------------------------------------------------
(* The request being served is still there, and the key is on every node   *)
(* that has been visited for it, unless everywhere says otherwise.         *)
Serving ==
    /\ at \in {"reject", "nodes", "write"} => requests[serving[1]] = serving[2]
    /\ at \in {"nodes", "write"} /\ everywhere =>
          \A n \in Nodes \ (nodes \cup target) : serving \in metadata[n]
    /\ \A m, n \in target : m = n

ServedIsEverywhere ==
    \A u \in Users : requests[u] \in Keys /\ requests'[u] = "none" =>
        \A n \in Nodes : <<u, requests[u]>> \in metadata[n]

LEMMA ServingKept ==
    ASSUME Inv, Serving, ~Overlap, ~Reupload, [Next]_vars
    PROVE  Serving' /\ ServedIsEverywhere
<1>1. /\ \A n \in Nodes : metadata[n] \subseteq metadata'[n]
      /\ TypeOK /\ "none" \notin Keys /\ "bad" \notin Keys
      /\ (at = "write" \/ target = {}) /\ requests \in [Users -> Content]
  BY NextInv, KeyAssumption DEF Gains, Inv, Types, TypeOK, ReadIsCurrent
<1>2. UNCHANGED requests => ServedIsEverywhere
  BY <1>1 DEF ServedIsEverywhere
<1>3. CASE UNCHANGED <<requests, syncVars>>
  BY <1>1, <1>2, <1>3 DEF Serving, syncVars, visit, TypeOK
<1>4. ASSUME NEW u \in Users, NEW c \in Content \ {"none"}, Upload(u, c)
      PROVE  Serving' /\ ServedIsEverywhere
  <2>1. requests[u] = "none" /\ requests' = [requests EXCEPT ![u] = c]
        /\ UNCHANGED <<metadata, syncVars>>
    BY <1>4 DEF Upload
  <2>2. at \in {"reject", "nodes", "write"} => serving[1] # u /\ serving[1] \in Users
    BY <1>1, <2>1 DEF Serving, TypeOK, Identity
  <2>3. Serving'
    BY <1>1, <2>1, <2>2 DEF Serving, syncVars, visit
  <2> QED
    BY <1>1, <2>1, <2>3 DEF ServedIsEverywhere
<1>5. CASE ListRequests \/ EndPass \/ BreakOff
  BY <1>1, <1>2, <1>5 DEF ListRequests, EndPass, BreakOff, Leave, Serving, visit
<1>6. CASE RejectRequest \/ CompleteRequest
  <2>1. at' = "pass" /\ at \in {"reject", "nodes"}
        /\ target = {} /\ target' = {}
    BY <1>1, <1>6 DEF RejectRequest, CompleteRequest, visit
  <2>2. CASE UNCHANGED requests
    BY <1>2, <2>1, <2>2 DEF Serving
  <2>3. CASE requests' = [requests EXCEPT ![serving[1]] = "none"] /\ at = "reject"
    <3>1. requests[serving[1]] = "bad"
      BY <1>1, <2>3 DEF Serving, TypeOK
    <3> QED
      BY <1>1, <2>1, <2>3, <3>1 DEF Serving, ServedIsEverywhere
  <2>4. CASE /\ requests' = [requests EXCEPT ![serving[1]] = "none"]
             /\ at = "nodes" /\ everywhere /\ nodes = {}
    <3>1. serving = <<serving[1], serving[2]>> /\ requests[serving[1]] = serving[2]
      BY <1>1, <2>4 DEF Serving, TypeOK, Identity
    <3>2. \A n \in Nodes : serving \in metadata[n]
      BY <2>1, <2>4 DEF Serving
    <3> QED
      BY <1>1, <2>1, <2>4, <3>1, <3>2 DEF Serving, ServedIsEverywhere
  <2> QED
    BY <1>6, <2>1, <2>2, <2>3, <2>4 DEF RejectRequest, CompleteRequest, DeleteRequest
<1>7. ASSUME NEW u \in listed, ReadRequest(u)
      PROVE  Serving' /\ ServedIsEverywhere
  BY <1>1, <1>2, <1>7 DEF ReadRequest, Serving, TypeOK, visit
<1>8. ASSUME NEW n \in nodes, ReadNode(n)
      PROVE  Serving' /\ ServedIsEverywhere
  BY <1>1, <1>2, <1>8 DEF ReadNode, SkipUnreadable, Serving, visit
<1>9. ASSUME NEW n \in target, WriteNode(n)
      PROVE  Serving' /\ ServedIsEverywhere
  <2>1. everywhere' => everywhere /\ serving \in metadata'[n]
    BY <1>9, SyncWriteTypes DEF Inv
  <2>2. target = {n}
    BY DEF Serving
  <2>3. /\ at = "write" /\ at' = "nodes" /\ target' = {}
        /\ UNCHANGED <<requests, serving, nodes>>
    BY <1>9 DEF WriteNode
  <2> QED
    BY <1>1, <1>2, <2>1, <2>2, <2>3 DEF Serving
<1>10. CASE (\E ns \in (SUBSET Nodes) \ {{}} : StartCommand(ns)) \/ Command
  BY <1>3, <1>10 DEF StartCommand, Command, Inventory, Append, Plan, EndCommand
<1> QED
  BY <1>3, <1>4, <1>5, <1>6, <1>7, <1>8, <1>9, <1>10 DEF Next, SyncPass, vars

(* A request for a key is deleted only when the key is on every node       *)
(* (scheduler.py:585-588, 610-629), for any number of nodes and users and  *)
(* however many calls fail, if no user replaces a pending request.         *)
THEOREM DeletedMeansServed ==
    ASSUME ~Overlap, ~Reupload PROVE Spec => ServedMeansEverywhere
<1>1. Init => Inv /\ Serving
  BY InitInv DEF Init, Serving
<1>2. Inv /\ Serving /\ [Next]_vars => Inv' /\ Serving'
  BY NextInv, ServingKept
<1>3. Inv /\ Serving /\ [Next]_vars =>
         [\A u \in Users : requests[u] \in Keys /\ requests'[u] = "none" =>
             \A n \in Nodes : <<u, requests[u]>> \in metadata[n]]_vars
  BY ServingKept DEF ServedIsEverywhere
<1> QED
  BY <1>1, <1>2, <1>3, PTL DEF Spec, ServedMeansEverywhere

-----------------------------------------------------------------------------
(* While exitCode is 0, every node was read, and those that the command    *)
(* is done with have every key.                                            *)
Spreading ==
    /\ exitCode = 0 => unreadable = {}
    /\ command = "append" /\ exitCode = 0 =>
          \A n \in scope \ todo : Union \subseteq metadata[n]

LEMMA SpreadingKept ==
    ASSUME Inv, Spreading, ~Overlap, [Next]_vars
    PROVE  Spreading'
<1>1. /\ \A n \in Nodes : metadata[n] \subseteq metadata'[n]
      /\ scope \subseteq Nodes /\ todo \subseteq scope
  BY NextInv DEF Gains, Inv, Types, TypeOK
<1>2. UNCHANGED <<scope, seen>> => Union' = Union
  BY DEF Union
<1>3. CASE UNCHANGED adminVars
  BY <1>1, <1>2, <1>3 DEF Spreading, adminVars
<1>4. ASSUME NEW ns \in SUBSET Nodes, StartCommand(ns)
      PROVE  Spreading'
  BY <1>4 DEF StartCommand, Spreading, Inv, Types
<1>5. ASSUME NEW n \in todo, Inventory(n)
      PROVE  Spreading'
  BY <1>5 DEF Inventory, Spreading
<1>6. CASE Plan
  <2>1. exitCode = 0 =>
           \A n \in scope \ todo' : Lacking(n) = {} /\ seen[n] = metadata[n]
    BY <1>6 DEF Plan, Spreading, Inv, ReadIsCurrent
  <2>2. exitCode = 0 => \A n \in scope \ todo' : Union \subseteq metadata[n]
    BY <2>1 DEF Lacking
  <2> QED
    BY <1>2, <1>6, <2>2 DEF Plan, Spreading
<1>7. ASSUME NEW n \in todo, Append(n)
      PROVE  Spreading'
  <2>1. exitCode' = 0 => exitCode = 0 /\ Union \subseteq metadata'[n]
    BY <1>7, CommandWriteTypes DEF Inv, Lacking
  <2> QED
    BY <1>1, <1>2, <1>7, <2>1 DEF Append, Spreading
<1>8. CASE EndCommand
  BY <1>8 DEF EndCommand, Spreading
<1>9. CASE ListRequests \/ SyncPass \/ BreakOff
  BY <1>3, <1>9 DEF ListRequests, SyncPass, BreakOff, EndPass, Leave, ReadRequest,
     RejectRequest, ReadNode, WriteNode, CompleteRequest
<1> QED
  BY <1>3, <1>4, <1>5, <1>6, <1>7, <1>8, <1>9 DEF Next, Command, Upload, vars

(* A command that exits with 0 leaves every node it looked at with every   *)
(* key any of them had, and with those added (cli.py:1104-1167), for any   *)
(* number of nodes and keys and however many calls fail.                   *)
THEOREM ZeroIsSpread == ASSUME ~Overlap PROVE Spec => ZeroMeansSpread
<1>1. Init => Inv /\ Spreading
  BY InitInv DEF Init, Spreading
<1>2. Inv /\ Spreading /\ [Next]_vars => Inv' /\ Spreading'
  BY NextInv, SpreadingKept
<1>3. Inv /\ Spreading /\ [Next]_vars =>
         [command = "append" /\ command' = "off" /\ exitCode = 0 =>
             \A n \in scope : Union \subseteq metadata[n]]_vars
  <2> SUFFICES ASSUME Inv, Spreading, Next, command = "append", command' = "off", exitCode = 0
               PROVE  \A n \in scope : Union \subseteq metadata[n]
    BY DEF vars, adminVars
  <2>1. at = "idle" /\ listed \subseteq Users /\ target = {}
    BY DEF Inv, Types, TypeOK, ReadIsCurrent
  <2>2. EndCommand
    BY <2>1 DEF Next, SyncPass, Command, Upload, ListRequests, BreakOff, EndPass, Leave,
       ReadRequest, RejectRequest, ReadNode, WriteNode, CompleteRequest, StartCommand,
       Inventory, Append, Plan, adminVars
  <2> QED
    BY <2>2 DEF EndCommand, Spreading
<1> QED
  BY <1>1, <1>2, <1>3, PTL DEF Spec, ZeroMeansSpread
=============================================================================
