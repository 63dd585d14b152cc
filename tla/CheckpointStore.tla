--------------------------- MODULE CheckpointStore ---------------------------
(***************************************************************************)
(* The Store of text_forward.cpp, which maps the shards that the forward   *)
(* pass reads, opened on a directory that CheckpointBinding has looked at. *)
(* It reads the index and the headers again, with fewer checks: a name may *)
(* repeat, a header may hold what the index does not say, and the shards   *)
(* are opened in the order of a hash table.  Files that were there when    *)
(* they were read have not changed since.                                  *)
(***************************************************************************)
EXTENDS CheckpointBinding

CONSTANTS
  Single,      \* the shard called model.safetensors
  Unsupported  \* layouts with a dtype other than BF16, F32, U8 and F8_E4M3

ASSUME StoreAssumption ==
  /\ Single \in Shard /\ Unsupported \subseteq Layout
  /\ \A name \in DOMAIN Expected : Expected[name] \notin Unsupported

VARIABLES
  stage,   \* "none", "mapping", "reading", "open" or what it failed with
  mapped,  \* maps_: the shards in the order in which they were mapped
  parsed,  \* how many of their headers have been read
  served   \* tensors_: name -> [layout, shard]

storeVars == <<stage, mapped, parsed, served>>

StoreInit == Init /\ stage = "none" /\ mapped = << >> /\ parsed = 0 /\ served = << >>

Bind == Advance /\ UNCHANGED storeVars

(* The files the index names, or the one that needs no index. *)
ShardsOf == IF index = "map" THEN {weightMap[name] : name \in DOMAIN weightMap} ELSE {Single}

(* A broken index throws here; without an index only one file will do. *)
OpenStore ==
  /\ stage = "none" /\ pc = "done" /\ index # "unread"
  /\ stage' = IF index = "broken" \/ (index = "absent" /\ found[Single] # "read")
              THEN "no index" ELSE "mapping"
  /\ UNCHANGED <<mapped, parsed, served>> /\ UNCHANGED vars

(* The next shard of the hash table; a file that was not read then may be  *)
(* missing now.                                                            *)
MapShard ==
  /\ stage = "mapping" /\ ToSet(mapped) # ShardsOf
  /\ \E s \in ShardsOf \ ToSet(mapped) :
       IF found[s] = "read" THEN mapped' = Append(mapped, s) /\ UNCHANGED stage
       ELSE stage' = "cannot open" /\ UNCHANGED mapped
  /\ UNCHANGED <<parsed, served>> /\ UNCHANGED vars

(* tensors_.emplace: the first entry of a name stays. *)
Emplaced(tensors, s) ==
  [name \in DOMAIN tensors \cup NamesOf(header[s]) |->
     IF name \in DOMAIN tensors THEN tensors[name]
     ELSE [layout |-> FirstOf(header[s], name).layout, shard |-> s]]

(* All are mapped before the first header is read. *)
MappedAll ==
  /\ stage = "mapping" /\ ToSet(mapped) = ShardsOf
  /\ stage' = "reading"
  /\ UNCHANGED <<mapped, parsed, served>> /\ UNCHANGED vars

ReadHeader ==
  /\ stage = "reading" /\ parsed < Len(mapped)
  /\ LET s == mapped[parsed + 1]
     IN IF \E i \in DOMAIN header[s] : header[s][i].layout \in Unsupported
        THEN stage' = "unsupported dtype" /\ UNCHANGED <<parsed, served>>
        ELSE parsed' = parsed + 1 /\ served' = Emplaced(served, s) /\ UNCHANGED stage
  /\ UNCHANGED mapped /\ UNCHANGED vars

ReadAll ==
  /\ stage = "reading" /\ parsed = Len(mapped)
  /\ stage' = "open"
  /\ UNCHANGED <<mapped, parsed, served>> /\ UNCHANGED vars

Ended == stage \notin {"none", "mapping", "reading"} \/ pc = "thrown" \/ (pc = "done" /\ index = "unread")
Rest == Ended /\ UNCHANGED vars /\ UNCHANGED storeVars

StoreNext == Bind \/ OpenStore \/ MapShard \/ MappedAll \/ ReadHeader \/ ReadAll \/ Rest

StoreSpec == StoreInit /\ [][StoreNext]_<<vars, storeVars>>

-----------------------------------------------------------------------------
(* A binding pass that said complete of an indexed checkpoint settles what *)
(* the store, which checks much less and in no particular order, will      *)
(* serve: it opens, and every tensor it then finds under an expected name  *)
(* has the expected layout and lies in the shard the index names           *)
(* (text_forward.cpp:364-452 against checkpoint_binding.cpp:620-709).  A   *)
(* names-only pass has opened no shard and promises none of this.          *)
CompleteIsServed ==
  ~NamesOnly /\ complete /\ index = "map" =>
    /\ stage \in {"none", "mapping", "reading", "open"}
    /\ stage = "open" =>
         served = [name \in DOMAIN Expected |->
                     [layout |-> Expected[name], shard |-> weightMap[name]]]
=============================================================================
