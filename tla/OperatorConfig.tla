--------------------------- MODULE OperatorConfig ---------------------------
(***************************************************************************)
(* The configuration of the operator: one map in the process, which every  *)
(* reconcile fills from the ConfigMap, first with the defaults and then    *)
(* with the values, and reads again when it needs them.  Reconciles of     *)
(* different resources run at the same time when MAX_CONCURRENT_RECONCILES *)
(* is more than 1.                                                         *)
(*                                                                         *)
(* Two of the keys are followed: the minimum interval and the percentage   *)
(* of its increase, which an application last reconciled by version 1.4.1  *)
(* changes from 100 to 50, in the map and in the ConfigMap.                *)
(***************************************************************************)
EXTENDS Integers

CONSTANTS
  Nil,
  Workers,     \* the reconciles that may run at the same time, one application each
  ConfigMaps,  \* what administrators write into the ConfigMap
  MaxEdits,    \* how often they change it
  MaxFaults    \* how many calls fail

Keys == {"minimum", "percentage"}

DefaultOpConfig == [minimum |-> 5, percentage |-> 50]

\* A key that is left out is Nil; the bounds are numbers.
ConfigAssumption ==
  /\ ConfigMaps \subseteq [Keys -> Int \cup {Nil}]
  /\ MaxEdits \in Nat
  /\ MaxFaults \in Nat

ASSUME ConfigAssumption

VARIABLES
  configMap,   \* the ConfigMap in the cluster, Nil if it was deleted
  config,      \* the map in the process
  old,         \* the workers whose application was last reconciled by 1.4.1
  pc,          \* where each reconcile is
  read,        \* the ConfigMap it has read, Nil if it could not
  todo,        \* the keys it still has to store
  key,         \* the key it checks
  failed,      \* a check or a call has failed
  overlapped,  \* somebody else has changed the map or the ConfigMap since
  edits, faults

vars == <<configMap, config, old, pc, read, todo, key, failed, overlapped, edits, faults>>

\* The operator starts with an empty map, or with the defaults where it has made the
\* ConfigMap from them.
Init ==
  /\ \/ configMap \in ConfigMaps /\ config = [k \in Keys |-> Nil]
     \/ configMap = DefaultOpConfig /\ config = DefaultOpConfig
  /\ old \in SUBSET Workers
  /\ pc = [w \in Workers |-> "idle"]
  /\ read = [w \in Workers |-> Nil]
  /\ todo = [w \in Workers |-> {}]
  /\ key = [w \in Workers |-> "minimum"]
  /\ failed = [w \in Workers |-> FALSE]
  /\ overlapped = [w \in Workers |-> FALSE]
  /\ edits = 0
  /\ faults = 0

-----------------------------------------------------------------------------
Given(cm) == {k \in Keys : cm[k] # Nil}

Goto(w, step) == pc' = [pc EXCEPT ![w] = step]

\* The reconciles under way, but for w, are told of a change.
Overlapping(w) ==
  overlapped' = [v \in Workers |-> overlapped[v] \/ (v # w /\ pc[v] # "idle")]

Valid(k, value) ==
  value # Nil /\ (IF k = "minimum" THEN value > 0 ELSE value >= 0)

\* The end of a reconcile, which forgets what it had in memory.
End(w) ==
  /\ Goto(w, "idle")
  /\ read' = [read EXCEPT ![w] = Nil]
  /\ todo' = [todo EXCEPT ![w] = {}]
  /\ key' = [key EXCEPT ![w] = "minimum"]
  /\ failed' = [failed EXCEPT ![w] = FALSE]
  /\ overlapped' = [overlapped EXCEPT ![w] = FALSE]

\* The start of a reconcile that has read the ConfigMap, or could not.
Begin(w, cm, step) ==
  /\ pc[w] = "idle"
  /\ Goto(w, step)
  /\ read' = [read EXCEPT ![w] = cm]
  /\ todo' = [todo EXCEPT ![w] = IF cm = Nil THEN {} ELSE Keys]
  /\ key' = [key EXCEPT ![w] = "minimum"]
  /\ failed' = [failed EXCEPT ![w] = FALSE]

ReadConfigMap(w) ==
  /\ configMap # Nil
  /\ Begin(w, configMap, "defaults")
  /\ overlapped' = [overlapped EXCEPT ![w] = FALSE]
  /\ UNCHANGED <<configMap, config, old, edits, faults>>

\* The map of the process is replaced by another one: what a reconcile was about to
\* store in the old one is lost.
Replaced(step) ==
  CASE step \in {"defaults", "data"} -> "check"
    [] step = "setDefault"           -> "use"
    [] step = "storeFifty"           -> "write"
    [] OTHER                         -> step

\* A ConfigMap that is gone is made from the defaults, which replace the map first ...
CreateConfigMap(w) ==
  /\ configMap = Nil
  /\ pc[w] = "idle"
  /\ pc' = [v \in Workers |-> IF v = w THEN "create" ELSE Replaced(pc[v])]
  /\ todo' = [v \in Workers |-> {}]
  /\ config' = DefaultOpConfig
  /\ overlapped' = [v \in Workers |-> v # w /\ (overlapped[v] \/ pc[v] # "idle")]
  /\ UNCHANGED <<configMap, old, read, key, failed, edits, faults>>

\* ... and are written as the map then is, over what somebody else has made by then;
\* the reconcile goes on without having read one.
WriteDefaults(w) ==
  /\ pc[w] = "create"
  /\ \/ configMap' = config /\ UNCHANGED faults
     \/ faults < MaxFaults /\ faults' = faults + 1 /\ UNCHANGED configMap
  /\ Goto(w, "check")
  /\ Overlapping(w)
  /\ UNCHANGED <<config, old, read, todo, key, failed, edits>>

\* One that cannot be read leaves the map as it is.
ReadFails(w) ==
  /\ configMap # Nil
  /\ faults < MaxFaults
  /\ faults' = faults + 1
  /\ Begin(w, Nil, "check")
  /\ overlapped' = [overlapped EXCEPT ![w] = FALSE]
  /\ UNCHANGED <<configMap, config, old, edits>>

\* LoadFromConfigMap stores one key at a time, in any order.
StoreDefault(w) ==
  /\ pc[w] = "defaults"
  /\ \E k \in todo[w] :
       LET rest == todo[w] \ {k}
       IN /\ config' = [config EXCEPT ![k] = DefaultOpConfig[k]]
          /\ todo' = [todo EXCEPT ![w] = IF rest = {} THEN Given(read[w]) ELSE rest]
          /\ Goto(w, IF rest # {} THEN "defaults"
                     ELSE IF Given(read[w]) = {} THEN "check" ELSE "data")
  /\ Overlapping(w)
  /\ UNCHANGED <<configMap, old, read, key, failed, edits, faults>>

\* Fault: the loop over the values ends after the first.
StoreFirst(w) ==
  /\ pc[w] = "data"
  /\ \E k \in todo[w] :
       /\ config' = [config EXCEPT ![k] = read[w][k]]
       /\ todo' = [todo EXCEPT ![w] = @ \ {k}]
       /\ Goto(w, "check")
  /\ Overlapping(w)
  /\ UNCHANGED <<configMap, old, read, key, failed, edits, faults>>

\* The values of the ConfigMap go on top of the defaults.
StoreValue(w) ==
  /\ pc[w] = "data"
  /\ \E k \in todo[w] :
       /\ config' = [config EXCEPT ![k] = read[w][k]]
       /\ todo' = [todo EXCEPT ![w] = @ \ {k}]
       /\ Goto(w, IF todo[w] = {k} THEN "check" ELSE "data")
  /\ Overlapping(w)
  /\ UNCHANGED <<configMap, old, read, key, failed, edits, faults>>

\* Fault: the check only reports, and the value stays.
CheckOnly(w) ==
  /\ pc[w] = "check"
  /\ key' = [key EXCEPT ![w] = "percentage"]
  /\ failed' = [failed EXCEPT ![w] = ~Valid(key[w], config[key[w]])]
  /\ Goto(w, CASE failed'[w] -> "use"
               [] ~failed'[w] /\ key[w] = "minimum" -> "check"
               [] OTHER -> IF w \in old THEN "migrate" ELSE "use")
  /\ UNCHANGED <<configMap, config, old, read, todo, overlapped, edits, faults>>

\* The values are checked one after the other; the first that is not valid ends
\* the reconcile in an error.
CheckValidValue(w) ==
  /\ pc[w] = "check"
  /\ IF Valid(key[w], config[key[w]])
     THEN /\ key' = [key EXCEPT ![w] = "percentage"]
          /\ Goto(w, IF key[w] = "minimum" THEN "check"
                     ELSE IF w \in old THEN "migrate" ELSE "use")
          /\ UNCHANGED failed
     ELSE /\ Goto(w, "setDefault")
          /\ failed' = [failed EXCEPT ![w] = TRUE]
          /\ UNCHANGED key
  /\ UNCHANGED <<configMap, config, old, read, todo, overlapped, edits, faults>>

SetConfigMapDefaultValue(w) ==
  /\ pc[w] = "setDefault"
  /\ config' = [config EXCEPT ![key[w]] = DefaultOpConfig[key[w]]]
  /\ Goto(w, "use")
  /\ Overlapping(w)
  /\ UNCHANGED <<configMap, old, read, todo, key, failed, edits, faults>>

\* The migration: the map first, where another reconcile may come between the
\* load and the store, and then the ConfigMap.
UpdatePercentage(w) ==
  /\ pc[w] = "migrate"
  /\ Goto(w, IF config["percentage"] = 100 THEN "storeFifty" ELSE "write")
  /\ UNCHANGED <<configMap, config, old, read, todo, key, failed, overlapped, edits, faults>>

StoreFifty(w) ==
  /\ pc[w] = "storeFifty"
  /\ config' = [config EXCEPT !["percentage"] = 50]
  /\ Goto(w, "write")
  /\ Overlapping(w)
  /\ UNCHANGED <<configMap, old, read, todo, key, failed, edits, faults>>

HasData(cm) == cm # Nil /\ Given(cm) # {}

\* Fault: every key of the ConfigMap is written from the map.
WriteAll(w) ==
  /\ pc[w] = "write"
  /\ configMap' = config
  /\ Goto(w, "use")
  /\ Overlapping(w)
  /\ UNCHANGED <<config, old, read, todo, key, failed, edits, faults>>

\* The ConfigMap is read again and the one key overwritten.
UpdateConfigMap(w) ==
  /\ pc[w] = "write"
  /\ read[w] # Nil /\ HasData(configMap)
  /\ configMap' = [configMap EXCEPT !["percentage"] = config["percentage"]]
  /\ Goto(w, "use")
  /\ Overlapping(w)
  /\ UNCHANGED <<config, old, read, todo, key, failed, edits, faults>>

\* It is gone, or the call fails.
UpdateFails(w) ==
  /\ pc[w] = "write"
  /\ read[w] # Nil
  /\ IF configMap = Nil THEN UNCHANGED faults ELSE faults < MaxFaults /\ faults' = faults + 1
  /\ failed' = [failed EXCEPT ![w] = TRUE]
  /\ Goto(w, "use")
  /\ UNCHANGED <<configMap, config, old, read, todo, key, overlapped, edits>>

\* A ConfigMap that could not be read is a nil pointer, and one without data has a
\* nil map: the panic ends the reconcile, which is tried again.
Panic(w) ==
  /\ pc[w] = "write"
  /\ read[w] = Nil \/ (configMap # Nil /\ ~HasData(configMap))
  /\ End(w)
  /\ UNCHANGED <<configMap, config, old, edits, faults>>

\* Fault: the version is not stored with the success.
UseUnrecorded(w) ==
  /\ pc[w] = "use"
  /\ End(w)
  /\ UNCHANGED <<configMap, config, old, edits, faults>>

\* The end of the reconcile, which computes the interval from the map; a success
\* stores the present version.
Use(w) ==
  /\ pc[w] = "use"
  /\ old' = IF failed[w] THEN old ELSE old \ {w}
  /\ End(w)
  /\ UNCHANGED <<configMap, config, edits, faults>>

\* An administrator changes the ConfigMap, or somebody deletes it.
Edit ==
  /\ edits < MaxEdits
  /\ edits' = edits + 1
  /\ configMap' \in (ConfigMaps \cup {Nil}) \ {configMap}
  /\ overlapped' = [w \in Workers |-> overlapped[w] \/ pc[w] # "idle"]
  /\ UNCHANGED <<config, old, pc, read, todo, key, failed, faults>>

Load(w)    == ReadConfigMap(w) \/ CreateConfigMap(w) \/ WriteDefaults(w)
              \/ StoreDefault(w) \/ StoreValue(w)
Check(w)   == CheckValidValue(w) \/ SetConfigMapDefaultValue(w)
Migrate(w) == UpdatePercentage(w) \/ StoreFifty(w) \/ UpdateConfigMap(w) \/ UpdateFails(w) \/ Panic(w)

Step(w) == Load(w) \/ Check(w) \/ Migrate(w) \/ Use(w)

Next == Edit \/ \E w \in Workers : Step(w) \/ ReadFails(w)

\* Every reconcile goes on, and is repeated after an interval.
Spec == Init /\ [][Next]_vars /\ \A w \in Workers : WF_vars(Step(w))
-----------------------------------------------------------------------------
(* Properties.                                                             *)

Places == {"idle", "create", "defaults", "data", "check", "setDefault", "migrate", "storeFifty",
           "write", "use"}

Content == [Keys -> Int \cup {Nil}]

\* The keys to store belong to the loading, one that is checked out of turn or a
\* failure to none but the reconcile it happened in.
TypeOK ==
  /\ configMap \in Content \cup {Nil}
  /\ config \in Content
  /\ old \subseteq Workers
  /\ pc \in [Workers -> Places]
  /\ read \in [Workers -> Content \cup {Nil}]
  /\ todo \in [Workers -> SUBSET Keys]
  /\ key \in [Workers -> Keys]
  /\ failed \in [Workers -> BOOLEAN]
  /\ overlapped \in [Workers -> BOOLEAN]
  /\ \A w \in Workers :
       /\ todo[w] # {} <=> pc[w] \in {"defaults", "data"}
       /\ pc[w] \in {"defaults", "data"} => read[w] # Nil
       /\ pc[w] = "data" => todo[w] \subseteq Given(read[w])
       /\ pc[w] \in {"migrate", "storeFifty", "write"} => w \in old
       /\ failed[w] => pc[w] \in {"setDefault", "use"}
       /\ pc[w] = "setDefault" => failed[w]
       /\ pc[w] \in {"idle", "create"} => read[w] = Nil
  /\ edits \in 0 .. MaxEdits
  /\ faults \in 0 .. MaxFaults

\* What the ConfigMap a reconcile has read makes of the configuration: its values
\* where there are any, the default for the first that is not valid, and half of
\* 100 percent for an application of version 1.4.1.
Loaded(cm) == [k \in Keys |-> IF cm[k] = Nil THEN DefaultOpConfig[k] ELSE cm[k]]

Effective(w) ==
  LET loaded == Loaded(read[w])
      invalid == {k \in Keys : ~Valid(k, loaded[k])}
  IN IF invalid # {}
     THEN LET first == IF "minimum" \in invalid THEN "minimum" ELSE "percentage"
          IN [loaded EXCEPT ![first] = DefaultOpConfig[first]]
     ELSE IF w \in old /\ loaded["percentage"] = 100
     THEN [loaded EXCEPT !["percentage"] = 50] ELSE loaded

\* A reconcile computes its interval from the configuration it has read and
\* checked, with a minimum that is positive, unless another reconcile or an
\* administrator came in between (config.go:91-143, reconciler.go:296-327).
UsesWhatItRead ==
  [][\A w \in Workers :
       Use(w) /\ read[w] # Nil /\ ~overlapped[w] =>
         config = Effective(w) /\ config["minimum"] > 0]_vars

\* The migration changes nothing of the ConfigMap but a percentage of 100, or one
\* left out, unless another reconcile or an administrator came in between
\* (config.go:146-153, utils.go:1867).
MigrationFaithful ==
  [][\A w \in Workers :
       UpdateConfigMap(w) /\ ~overlapped[w] /\ configMap' # configMap =>
         /\ configMap["percentage"] \in {100, Nil}
         /\ configMap' = [configMap EXCEPT !["percentage"] = 50]]_vars

Good(cm) == HasData(cm) /\ \A k \in Keys : Valid(k, Loaded(cm)[k])

\* Every application of version 1.4.1 is brought to the present one, once the
\* ConfigMap stays valid and has data (runtimecomponent_controller.go:143-153).
EventuallyMigrated == <>[]Good(configMap) => <>[](old = {})
=============================================================================
