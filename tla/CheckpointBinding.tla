-------------------------- MODULE CheckpointBinding --------------------------
(***************************************************************************)
(* bind_checkpoint_directory (src/src/checkpoint_binding.cpp): whether the *)
(* files of a directory are the checkpoint the runtime expects.  What each *)
(* access to the directory finds is decided when it is made, so files may  *)
(* come and go between two looks at them, as they do while a download is   *)
(* running.                                                                *)
(*                                                                         *)
(* A tensor's dtype and shape are one value (its layout), and the two      *)
(* mismatch counters one counter; a header is the sequence of its entries. *)
(* The list of error texts, capped at 24, is left out: nothing reads it.   *)
(***************************************************************************)
EXTENDS Integers, FiniteSets, SequencesExt

CONSTANTS
  Name,       \* tensor names
  Layout,     \* dtype and shape
  Expected,   \* the catalogue: expected name -> layout
  ShardOrder, \* shard file names in sorted order
  Unsafe,     \* those safe_relative_shard_name refuses
  Headers,    \* what a shard header can hold: sequences of [name, layout]
  Receipts,   \* what materialization-receipt.json can say
  NamesOnly   \* --names-only

Shard == ToSet(ShardOrder)
WeightMaps == UNION {[names -> Shard] : names \in SUBSET Name}

NoLayout == "none"  \* a name known from the index only

ASSUME BindingAssumption ==
  /\ IsFiniteSet(Name) /\ NoLayout \notin Layout
  /\ DOMAIN Expected \subseteq Name /\ DOMAIN Expected # {}
  /\ \A name \in DOMAIN Expected : Expected[name] \in Layout
  /\ ShardOrder \in Seq(Shard) /\ IsInjective(ShardOrder) /\ Unsafe \subseteq Shard
  /\ Headers \subseteq Seq([name : Name, layout : Layout])
  /\ \A receipt \in Receipts :
       /\ receipt.config \in {"none", "same", "other"}
       /\ receipt.index \in {"none", "same", "other"}
       /\ receipt.count \in Nat \cup {-1}
  /\ NamesOnly \in BOOLEAN

VARIABLES
  pc,        \* "config", "receipt", "index", "stat", "read", "bind", "done", "thrown"
  config,    \* what config.json was: "unread", "missing", "wrong", "right"
  receipt,   \* what the receipt said (absent fields: "none", -1)
  index,     \* "unread", "absent", "broken" or "map"
  weightMap, \* the index's name -> shard, empty without one
  todo,      \* the shards still to be read
  late,      \* shards that were not there when first looked for
  found,     \* what reading a shard found: "unread", "absent", "unreadable", "read"
  header,    \* the entries of the shards read
  catalog,   \* name -> [layout, shard]
  ioErrors,  \* report.io_errors
  counts     \* report.bound, missing, unexpected and the layout mismatches

vars == <<pc, config, receipt, index, weightMap, todo, late, found, header, catalog,
          ioErrors, counts>>

NoReceipt == [config |-> "none", index |-> "none", count |-> -1]
NoCounts == [bound |-> 0, missing |-> 0, unexpected |-> 0, mismatched |-> 0]

Init ==
  /\ pc = "config" /\ config = "unread"
  /\ receipt = NoReceipt
  /\ index = "unread" /\ weightMap = << >>
  /\ todo = {} /\ late = {}
  /\ found = [s \in Shard |-> "unread"] /\ header = [s \in Shard |-> << >>]
  /\ catalog = << >>
  /\ ioErrors = 0 /\ counts = NoCounts

-----------------------------------------------------------------------------
(* Without config.json the pass ends at once; a wrong one is counted. *)
ReadConfig ==
  /\ pc = "config"
  /\ config' \in {"missing", "wrong", "right"}
  /\ pc' = IF config' = "missing" THEN "done" ELSE "receipt"
  /\ ioErrors' = IF config' = "right" THEN 0 ELSE 1
  /\ UNCHANGED <<receipt, index, weightMap, todo, late, found, header, catalog, counts>>

ReadReceipt ==
  /\ pc = "receipt"
  /\ receipt' \in Receipts
  /\ ioErrors' = ioErrors + IF receipt'.config = "other" THEN 1 ELSE 0
  /\ pc' = "index"
  /\ UNCHANGED <<config, index, weightMap, todo, late, found, header, catalog, counts>>

(* An index that cannot be parsed leaves an empty map: both are counted. *)
ReadIndex ==
  /\ pc = "index"
  /\ \/ /\ index' = "map"
        /\ weightMap' \in WeightMaps
        /\ ioErrors' = ioErrors + (IF weightMap' = << >> THEN 1 ELSE 0)
                                + (IF receipt.index = "other" THEN 1 ELSE 0)
        /\ todo' = {weightMap'[name] : name \in DOMAIN weightMap'}
     \/ /\ index' = "broken"
        /\ weightMap' = << >>
        /\ ioErrors' = ioErrors + 2 + (IF receipt.index = "other" THEN 1 ELSE 0)
        /\ todo' = {}
     \/ /\ index' = "absent"
        /\ weightMap' = << >>
        /\ \E listing \in SUBSET (Shard \ Unsafe) :
             /\ todo' = listing
             /\ ioErrors' = ioErrors + IF listing = {} THEN 1 ELSE 0
  /\ pc' = "stat"
  /\ UNCHANGED <<config, receipt, late, found, header, catalog, counts>>

Safe(s) == s \notin Unsafe

(* The first look at the shards; the catalogue of a names-only pass is the *)
(* index.                                                                  *)
StatShards ==
  /\ pc = "stat"
  /\ late' \in SUBSET {s \in todo : Safe(s)}
  /\ ioErrors' = ioErrors + Cardinality(todo \cap Unsafe)
                          + (IF NamesOnly THEN 0 ELSE Cardinality(late'))
  /\ IF NamesOnly /\ weightMap # << >>
     THEN /\ catalog' = [name \in DOMAIN weightMap |->
                           [layout |-> NoLayout, shard |-> weightMap[name]]]
          /\ pc' = "bind"
     ELSE /\ pc' = "read"
          /\ UNCHANGED catalog
  /\ UNCHANGED <<config, receipt, index, weightMap, todo, found, header, counts>>

NamesOf(entries) == {entries[i].name : i \in 1..Len(entries)}
FirstOf(entries, name) ==
  entries[CHOOSE i \in 1..Len(entries) :
            /\ entries[i].name = name
            /\ \A j \in 1..(i - 1) : entries[j].name # name]

(* Slip: only a name that repeats within one header is counted. *)
DuplicatesInHeader(s, entries) == Len(entries) - Cardinality(NamesOf(entries))

(* Entries that repeat a name of the same header, and names another shard  *)
(* already brought.                                                        *)
Duplicates(s, entries) ==
  (Len(entries) - Cardinality(NamesOf(entries)))
  + Cardinality(NamesOf(entries) \cap DOMAIN catalog)

(* The first occurrence of a name is kept. *)
Merge(s, entries) ==
  [name \in DOMAIN catalog \cup NamesOf(entries) |->
     IF name \in DOMAIN catalog THEN catalog[name]
     ELSE [layout |-> FirstOf(entries, name).layout, shard |-> s]]

(* The shards are read in the order of their names. *)
First(shards) ==
  ShardOrder[CHOOSE i \in DOMAIN ShardOrder :
               /\ ShardOrder[i] \in shards
               /\ \A j \in 1..(i - 1) : ShardOrder[j] \notin shards]

(* Slip: a shard that cannot be read is only skipped. *)
ReadShardQuietly ==
  /\ pc = "read" /\ todo # {}
  /\ LET s == First(todo)
     IN  \/ /\ found' \in {[found EXCEPT ![s] = "absent"], [found EXCEPT ![s] = "unreadable"]}
            /\ UNCHANGED <<ioErrors, header, catalog>>
         \/ /\ Safe(s)
            /\ \E entries \in Headers :
                 /\ header' = [header EXCEPT ![s] = entries]
                 /\ catalog' = Merge(s, entries)
                 /\ ioErrors' = ioErrors + Duplicates(s, entries)
            /\ found' = [found EXCEPT ![s] = "read"]
  /\ todo' = todo \ {First(todo)}
  /\ UNCHANGED <<pc, config, receipt, index, weightMap, late, counts>>

(* The second look.  An unsafe name, or a file that is not there (any      *)
(* more), is passed over; a header that is refused is counted.             *)
ReadShard ==
  /\ pc = "read" /\ todo # {}
  /\ LET s == First(todo)
     IN  \/ /\ found' = [found EXCEPT ![s] = "absent"]
            /\ UNCHANGED <<ioErrors, header, catalog>>
         \/ /\ Safe(s)
            /\ found' = [found EXCEPT ![s] = "unreadable"]
            /\ ioErrors' = ioErrors + 1
            /\ UNCHANGED <<header, catalog>>
         \/ /\ Safe(s)
            /\ \E entries \in Headers :
                 /\ header' = [header EXCEPT ![s] = entries]
                 /\ catalog' = Merge(s, entries)
                 /\ ioErrors' = ioErrors + Duplicates(s, entries)
            /\ found' = [found EXCEPT ![s] = "read"]
  /\ todo' = todo \ {First(todo)}
  /\ UNCHANGED <<pc, config, receipt, index, weightMap, late, counts>>

(* Indexed but not in a header, in another shard's header, or in a header  *)
(* but not indexed.                                                        *)
IndexErrors ==
  LET names == DOMAIN weightMap
  IN  Cardinality(names \ DOMAIN catalog)
      + Cardinality({name \in names \cap DOMAIN catalog : catalog[name].shard # weightMap[name]})
      + Cardinality(DOMAIN catalog \ names)

CrossCheck ==
  /\ pc = "read" /\ todo = {}
  /\ ioErrors' = ioErrors + IF weightMap = << >> THEN 0 ELSE IndexErrors
  /\ pc' = "bind"
  /\ UNCHANGED <<config, receipt, index, weightMap, todo, late, found, header, catalog, counts>>

Mismatched(name) ==
  IF catalog[name].layout = NoLayout THEN ~NamesOnly
  ELSE catalog[name].layout # Expected[name]

(* The receipt's tensor count, then bind_catalog. *)
BindCatalog ==
  /\ pc = "bind"
  /\ LET names == DOMAIN catalog
         known == names \cap DOMAIN Expected
     IN  /\ ioErrors' = ioErrors +
              IF ~NamesOnly /\ receipt.count \notin {-1, Cardinality(names)} THEN 1 ELSE 0
         /\ counts' = [bound |-> Cardinality(known),
                       missing |-> Cardinality(DOMAIN Expected \ names),
                       unexpected |-> Cardinality(names \ DOMAIN Expected),
                       mismatched |-> Cardinality({name \in known : Mismatched(name)})]
  /\ pc' = "done"
  /\ UNCHANGED <<config, receipt, index, weightMap, todo, late, found, header, catalog>>

(* A file that exists cannot be read, or is gone when its size is asked. *)
Throw ==
  /\ pc \in {"config", "receipt", "index", "stat", "read"}
  /\ pc' = "thrown"
  /\ UNCHANGED <<config, receipt, index, weightMap, todo, late, found, header, catalog,
                 ioErrors, counts>>

Stopped == pc \in {"done", "thrown"} /\ UNCHANGED vars

Advance ==
  \/ ReadConfig \/ ReadReceipt \/ ReadIndex \/ StatShards
  \/ ReadShard \/ CrossCheck \/ BindCatalog
  \/ Throw

Next == Advance \/ Stopped

Spec == Init /\ [][Next]_vars

(* finish(): the verdict, report.complete. *)
Finish ==
  /\ ioErrors = 0
  /\ counts.missing = 0 /\ counts.unexpected = 0 /\ counts.mismatched = 0

complete == pc = "done" /\ Finish

-----------------------------------------------------------------------------
(* What a checkpoint should be, said of what was found and not of how it   *)
(* was counted.                                                            *)
Places == UNION {{s} \X (1..Len(header[s])) : s \in Shard}
At(place) == header[place[1]][place[2]]

Attested ==
  /\ config = "right"
  /\ receipt.config # "other"
  /\ index # "absent" => receipt.index # "other"

EachOnce ==
  /\ \A name \in DOMAIN Expected : \E place \in Places :
       /\ At(place) = [name |-> name, layout |-> Expected[name]]
       /\ \A other \in Places : At(other).name = name => other = place
  /\ \A place \in Places : At(place).name \in DOMAIN Expected

AsIndexed ==
  index = "map" =>
    /\ DOMAIN weightMap = {At(place).name : place \in Places}
    /\ \A place \in Places : weightMap[At(place).name] = place[1]

Flawless ==
  /\ Attested /\ EachOnce /\ AsIndexed
  /\ index \in {"absent", "map"}
  /\ \A s \in Shard : found[s] # "unreadable"
  /\ receipt.count \in {-1, Cardinality(Places)}

(* The verdict of a pass that opens the shards is exact: complete means    *)
(* that every expected tensor was read exactly once, with its layout, from *)
(* the shard the index names, and that nothing else was there, even if     *)
(* files came and went during the pass; and only a shard that was not      *)
(* there yet at the first look spoils a flawless reading                   *)
(* (checkpoint_binding.cpp:620-709).                                       *)
VerdictIsExact ==
  ~NamesOnly /\ pc = "done" => (complete <=> Flawless /\ late = {})

(* "A complete receipt requires the shard headers" (README.md:42-43). *)
CompleteNeedsHeaders ==
  complete => \A name \in DOMAIN Expected : \E place \in Places : At(place).name = name
=============================================================================
