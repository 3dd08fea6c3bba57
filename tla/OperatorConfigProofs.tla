------------------------ MODULE OperatorConfigProofs ------------------------
(***************************************************************************)
(* Proofs about OperatorConfig, for every number of reconciles at a time,  *)
(* all contents of the ConfigMap, and all bounds.                          *)
(***************************************************************************)
EXTENDS OperatorConfig, TLAPS

\* What a reconcile knows of the two maps as long as nobody has come in between:
\* the keys it has stored have its values, the ones it has checked are valid.
Undisturbed(w) ==
  read[w] # Nil /\ ~overlapped[w] =>
    /\ pc[w] \notin {"idle", "use"} => configMap = read[w]
    /\ pc[w] = "defaults" => \A k \in Keys \ todo[w] : config[k] = DefaultOpConfig[k]
    /\ pc[w] \in {"defaults", "data"} => key[w] = "minimum"
    /\ pc[w] = "data" =>
         \A k \in Keys : config[k] = IF k \in todo[w] THEN DefaultOpConfig[k]
                                                      ELSE Loaded(read[w])[k]
    /\ pc[w] \in {"check", "setDefault", "migrate", "storeFifty"} => config = Loaded(read[w])
    /\ pc[w] \in {"check", "setDefault"} /\ key[w] = "percentage" =>
         Valid("minimum", config["minimum"])
    /\ pc[w] = "setDefault" => ~Valid(key[w], config[key[w]])
    /\ pc[w] \in {"migrate", "storeFifty"} => \A k \in Keys : Valid(k, config[k])
    /\ pc[w] = "storeFifty" => config["percentage"] = 100
    /\ pc[w] = "write" => \A k \in Keys : Valid(k, Loaded(read[w])[k])
    /\ pc[w] \in {"write", "use"} => config = Effective(w)

AllUndisturbed == \A w \in Workers : Undisturbed(w)
-----------------------------------------------------------------------------
\* The defaults are numbers for every key, and the minimum among them positive.
LEMMA Defaults ==
  /\ DefaultOpConfig \in [Keys -> Int]
  /\ DefaultOpConfig \in Content
  /\ DefaultOpConfig["minimum"] = 5 /\ DefaultOpConfig["percentage"] = 50
BY DEF DefaultOpConfig, Keys, Content

\* What is loaded from a ConfigMap is a number for every key.
LEMMA LoadedType ==
  ASSUME NEW cm \in Content
  PROVE  Loaded(cm) \in [Keys -> Int] /\ Given(cm) \subseteq Keys
BY Defaults DEF Loaded, Given, Content

LEMMA TypeInit == Init => TypeOK
BY ConfigAssumption, Defaults
   DEF Init, TypeOK, ConfigAssumption, Content, Places, Keys

\* The state of the configuration always has its type.
LEMMA TypeStep ==
  ASSUME TypeOK, [Next]_vars
  PROVE  TypeOK'
<1> USE ConfigAssumption DEF ConfigAssumption, TypeOK, Places
<1>1. ASSUME NEW w \in Workers, ReadConfigMap(w) PROVE TypeOK'
  BY <1>1 DEF ReadConfigMap, Begin, Goto, Keys
<1>2. ASSUME NEW w \in Workers, CreateConfigMap(w) \/ WriteDefaults(w) PROVE TypeOK'
  <2>1. CASE CreateConfigMap(w)
    BY <2>1, Defaults DEF CreateConfigMap, Replaced, Keys
  <2>2. CASE WriteDefaults(w)
    BY <2>2 DEF WriteDefaults, Goto, Overlapping
  <2> QED
    BY <1>2, <2>1, <2>2
<1>3. ASSUME NEW w \in Workers, ReadFails(w) PROVE TypeOK'
  BY <1>3 DEF ReadFails, Begin, Goto, Keys
<1>4. ASSUME NEW w \in Workers, StoreDefault(w) PROVE TypeOK'
  <2>1. PICK k \in todo[w] :
          /\ config' = [config EXCEPT ![k] = DefaultOpConfig[k]]
          /\ todo' = [todo EXCEPT ![w] = IF todo[w] \ {k} = {} THEN Given(read[w])
                                                             ELSE todo[w] \ {k}]
          /\ pc' = [pc EXCEPT ![w] = IF todo[w] \ {k} # {} THEN "defaults"
                                    ELSE IF Given(read[w]) = {} THEN "check" ELSE "data"]
    BY <1>4 DEF StoreDefault, Goto
  <2>2. pc[w] = "defaults" /\ Given(read[w]) \subseteq Keys /\ k \in Keys
    BY <1>4, LoadedType DEF StoreDefault
  <2> HIDE DEF Given
  <2>3. config' \in Content /\ overlapped' \in [Workers -> BOOLEAN]
    BY <1>4, <2>1, <2>2, Defaults DEF StoreDefault, Overlapping, Content
  <2> QED
    BY <1>4, <2>1, <2>2, <2>3 DEF StoreDefault
<1>5. ASSUME NEW w \in Workers, StoreValue(w) PROVE TypeOK'
  BY <1>5 DEF StoreValue, Goto, Overlapping, Given, Content
<1>6. ASSUME NEW w \in Workers, CheckValidValue(w) PROVE TypeOK'
  <2>1. pc[w] = "check" /\ todo[w] = {}
    BY <1>6 DEF CheckValidValue
  <2>2. CASE Valid(key[w], config[key[w]])
    <3>1. PICK step \in {"check", "migrate", "use"} :
            pc' = [pc EXCEPT ![w] = step] /\ (step = "migrate" => w \in old)
      BY <1>6, <2>2 DEF CheckValidValue, Goto
    <3>2. key' \in [Workers -> Keys]
      BY <1>6, <2>2 DEF CheckValidValue, Keys
    <3> QED
      BY <1>6, <2>1, <2>2, <3>1, <3>2 DEF CheckValidValue
  <2>3. CASE ~Valid(key[w], config[key[w]])
    BY <1>6, <2>1, <2>3 DEF CheckValidValue, Goto
  <2> QED
    BY <2>2, <2>3
<1>7. ASSUME NEW w \in Workers, SetConfigMapDefaultValue(w) PROVE TypeOK'
  BY <1>7, Defaults DEF SetConfigMapDefaultValue, Goto, Overlapping, Content
<1>8. ASSUME NEW w \in Workers, UpdatePercentage(w) PROVE TypeOK'
  BY <1>8 DEF UpdatePercentage, Goto
<1>9. ASSUME NEW w \in Workers, StoreFifty(w) PROVE TypeOK'
  BY <1>9 DEF StoreFifty, Goto, Overlapping, Keys, Content
<1>10. ASSUME NEW w \in Workers, UpdateConfigMap(w) PROVE TypeOK'
  BY <1>10 DEF UpdateConfigMap, Goto, Overlapping, HasData, Content, Keys
<1>11. ASSUME NEW w \in Workers, UpdateFails(w) PROVE TypeOK'
  BY <1>11 DEF UpdateFails, Goto
<1>12. ASSUME NEW w \in Workers, Panic(w) \/ Use(w) PROVE TypeOK'
  <2>1. End(w) /\ old' \in {old, old \ {w}} /\ pc[w] \in {"write", "use"}
        /\ UNCHANGED <<configMap, config, edits, faults>>
    BY <1>12 DEF Panic, Use
  <2> QED
    BY <2>1 DEF End, Goto, Keys
<1>13. CASE Edit
  BY <1>13 DEF Edit, Content
<1>14. CASE UNCHANGED vars
  BY <1>14 DEF vars
<1> QED
  BY <1>1, <1>2, <1>3, <1>4, <1>5, <1>6, <1>7, <1>8, <1>9, <1>10, <1>11, <1>12, <1>13, <1>14
     DEF Next, Step, Load, Check, Migrate

\* TypeOK (OperatorConfig) holds for any number of reconciles at a time: whatever one
\* does to the shared map, the others find numbers in it and stay where they were.
THEOREM TypeCorrect == Spec => []TypeOK
BY TypeInit, TypeStep, PTL DEF Spec
-----------------------------------------------------------------------------
\* A reconcile that does not move is undisturbed while the maps stay as they are, and
\* when they change it knows that somebody came in between.
LEMMA Bystander ==
  ASSUME NEW v \in Workers, Undisturbed(v),
         read'[v] = read[v], todo'[v] = todo[v], key'[v] = key[v], pc'[v] = pc[v],
         v \in old <=> v \in old',
         \/ overlapped'[v] = TRUE
         \/ pc[v] = "idle"
         \/ UNCHANGED <<configMap, config>> /\ overlapped'[v] = overlapped[v]
  PROVE  Undisturbed(v)'
<1>1. CASE overlapped'[v] = TRUE
  BY <1>1 DEF Undisturbed
<1>2. CASE pc[v] = "idle"
  BY <1>2 DEF Undisturbed
<1>3. CASE UNCHANGED <<configMap, config>> /\ overlapped'[v] = overlapped[v]
  <2>1. Effective(v)' = Effective(v)
    <3>1. Loaded(read[v])' = Loaded(read[v])
      BY DEF Loaded
    <3>2. CASE v \in old
      BY <3>1, <3>2 DEF Effective
    <3>3. CASE v \notin old
      BY <3>1, <3>3 DEF Effective
    <3> QED
      BY <3>2, <3>3
  <2> QED
    BY <1>3, <2>1 DEF Undisturbed, Loaded
<1> QED
  BY <1>1, <1>2, <1>3

\* Every step by one reconcile keeps what the others know.
LEMMA Others ==
  ASSUME TypeOK, NEW w \in Workers, NEW v \in Workers, v # w,
         AllUndisturbed, Step(w) \/ ReadFails(w)
  PROVE  Undisturbed(v)'
<1> USE DEF TypeOK
<1>1. Undisturbed(v)
  BY DEF AllUndisturbed
<1>2. CASE CreateConfigMap(w)
  <2>1. CASE pc[v] # "idle"
    <3>1. overlapped'[v] = TRUE
      BY <1>2, <2>1 DEF CreateConfigMap
    <3> QED
      BY <3>1 DEF Undisturbed
  <2>2. CASE pc[v] = "idle"
    <3>1. pc'[v] = "idle"
      BY <1>2, <2>2 DEF CreateConfigMap, Replaced
    <3> QED
      BY <3>1 DEF Undisturbed
  <2> QED
    BY <2>1, <2>2
<1>9. CASE WriteDefaults(w)
  BY <1>1, <1>9, Bystander DEF WriteDefaults, Goto, Overlapping
<1>3. CASE ReadConfigMap(w) \/ ReadFails(w)
  BY <1>1, <1>3, Bystander DEF ReadConfigMap, ReadFails, Begin, Goto
<1>4. CASE StoreDefault(w) \/ StoreValue(w)
  BY <1>1, <1>4, Bystander DEF StoreDefault, StoreValue, Goto, Overlapping
<1>5. CASE CheckValidValue(w)
  BY <1>1, <1>5, Bystander DEF CheckValidValue, Goto
<1>6. CASE SetConfigMapDefaultValue(w) \/ StoreFifty(w) \/ UpdateConfigMap(w)
  BY <1>1, <1>6, Bystander DEF SetConfigMapDefaultValue, StoreFifty, UpdateConfigMap, Goto,
                               Overlapping
<1>7. CASE UpdatePercentage(w) \/ UpdateFails(w)
  BY <1>1, <1>7, Bystander DEF UpdatePercentage, UpdateFails, Goto
<1>8. CASE Panic(w) \/ Use(w)
  BY <1>1, <1>8, Bystander DEF Panic, Use, End, Goto
<1> QED
  BY <1>2, <1>3, <1>4, <1>5, <1>6, <1>7, <1>8, <1>9 DEF Step, Load, Check, Migrate

\* Every step of a reconcile keeps what it knows itself.
LEMMA Own ==
  ASSUME TypeOK, TypeOK', NEW w \in Workers, Undisturbed(w), Step(w) \/ ReadFails(w)
  PROVE  Undisturbed(w)'
<1> USE DEF TypeOK, Places
<1>1. CASE ReadConfigMap(w)
  BY <1>1 DEF ReadConfigMap, Begin, Goto, Undisturbed
<1>2. CASE ReadFails(w) \/ CreateConfigMap(w) \/ WriteDefaults(w) \/ Panic(w) \/ Use(w)
  <2>1. read'[w] = Nil
    BY <1>2 DEF ReadFails, CreateConfigMap, WriteDefaults, Begin, Panic, Use, End
  <2> QED
    BY <2>1 DEF Undisturbed
<1> SUFFICES ASSUME read'[w] # Nil, ~overlapped'[w],
                    ~ReadConfigMap(w), ~ReadFails(w), ~CreateConfigMap(w),
                    ~WriteDefaults(w), ~Panic(w), ~Use(w)
             PROVE  Undisturbed(w)'
  BY <1>1, <1>2 DEF Undisturbed
<1> DEFINE loaded == Loaded(read[w])
<1>3. read' = read /\ read[w] # Nil /\ ~overlapped[w] /\ old' = old
      /\ pc[w] \notin {"idle", "use"}
  BY DEF Step, Load, Check, Migrate, StoreDefault, StoreValue, CheckValidValue,
         SetConfigMapDefaultValue, UpdatePercentage, StoreFifty, UpdateConfigMap,
         UpdateFails, Overlapping
<1>4. configMap = read[w] /\ loaded \in [Keys -> Int]
  BY <1>3, LoadedType DEF Undisturbed
<1>13. config \in [Keys -> Int \cup {Nil}] /\ config' \in [Keys -> Int \cup {Nil}]
  BY DEF Content
<1>5. Loaded(read[w])' = loaded /\ Effective(w)' = Effective(w)
  BY <1>3 DEF Loaded, Effective
<1>6. CASE StoreDefault(w)
  <2>0. PICK k \in todo[w] :
          /\ config' = [config EXCEPT ![k] = DefaultOpConfig[k]]
          /\ todo' = [todo EXCEPT ![w] = IF todo[w] \ {k} = {} THEN Given(read[w])
                                                             ELSE todo[w] \ {k}]
          /\ pc' = [pc EXCEPT ![w] = IF todo[w] \ {k} # {} THEN "defaults"
                                    ELSE IF Given(read[w]) = {} THEN "check" ELSE "data"]
    BY <1>6 DEF StoreDefault, Goto
  <2>1. /\ \A l \in Keys : config'[l] = IF l = k THEN DefaultOpConfig[k] ELSE config[l]
        /\ todo'[w] = IF todo[w] \ {k} = {} THEN Given(read[w]) ELSE todo[w] \ {k}
        /\ pc'[w] = IF todo[w] \ {k} # {} THEN "defaults"
                    ELSE IF Given(read[w]) = {} THEN "check" ELSE "data"
    BY <1>13, <2>0
  <2>2. pc[w] = "defaults" /\ configMap' = configMap /\ key' = key /\ k \in Keys
    BY <1>6, <2>1 DEF StoreDefault
  <2>3. \A l \in Keys \ (todo[w] \ {k}) : config'[l] = DefaultOpConfig[l]
    BY <1>3, <1>13, <2>1, <2>2 DEF Undisturbed
  <2>4. CASE todo[w] \ {k} # {}
    BY <1>3, <1>4, <2>1, <2>2, <2>3, <2>4 DEF Undisturbed
  <2>5. CASE todo[w] \ {k} = {} /\ Given(read[w]) # {}
    <3>1. \A l \in Keys : config'[l] = DefaultOpConfig[l]
      BY <2>3, <2>5
    <3>2. \A l \in Keys : l \notin Given(read[w]) => loaded[l] = DefaultOpConfig[l]
      BY DEF Loaded, Given
    <3> QED
      BY <1>3, <1>4, <1>5, <2>1, <2>2, <2>5, <3>1, <3>2 DEF Undisturbed
  <2>6. CASE todo[w] \ {k} = {} /\ Given(read[w]) = {}
    <3>1. config' = loaded
      BY <1>4, <1>13, <2>1, <2>3, <2>6 DEF Loaded, Given
    <3>2. key[w] = "minimum"
      BY <1>3, <2>2 DEF Undisturbed
    <3> QED
      BY <1>3, <1>4, <1>5, <2>1, <2>2, <2>6, <3>1, <3>2 DEF Undisturbed
  <2> QED
    BY <2>4, <2>5, <2>6
<1>7. CASE StoreValue(w)
  <2>0. PICK k \in todo[w] :
          /\ config' = [config EXCEPT ![k] = read[w][k]]
          /\ todo' = [todo EXCEPT ![w] = todo[w] \ {k}]
          /\ pc' = [pc EXCEPT ![w] = IF todo[w] = {k} THEN "check" ELSE "data"]
    BY <1>7 DEF StoreValue, Goto
  <2>1. /\ \A l \in Keys : config'[l] = IF l = k THEN read[w][k] ELSE config[l]
        /\ todo'[w] = todo[w] \ {k}
        /\ pc'[w] = IF todo[w] = {k} THEN "check" ELSE "data"
    BY <1>13, <2>0
  <2>2. pc[w] = "data" /\ configMap' = configMap /\ key' = key /\ key[w] = "minimum"
    BY <1>3, <1>7 DEF StoreValue, Undisturbed
  <2>3. k \in Keys /\ read[w][k] = loaded[k]
    BY <2>1, <2>2 DEF Loaded, Given
  <2>4. \A l \in Keys : config'[l] = IF l \in todo[w] \ {k} THEN DefaultOpConfig[l]
                                                             ELSE loaded[l]
    BY <1>3, <1>13, <2>1, <2>2, <2>3 DEF Undisturbed
  <2>5. CASE todo[w] = {k}
    <3>1. config' = loaded
      BY <1>4, <1>13, <2>1, <2>4, <2>5
    <3> QED
      BY <1>3, <1>4, <1>5, <2>1, <2>2, <2>5, <3>1 DEF Undisturbed
  <2>6. CASE todo[w] # {k}
    BY <1>3, <1>4, <1>5, <2>1, <2>2, <2>4, <2>6 DEF Undisturbed
  <2> QED
    BY <2>5, <2>6
<1>8. CASE CheckValidValue(w)
  <2>1. /\ pc[w] = "check" /\ config' = config /\ configMap' = configMap
        /\ config = loaded /\ (key[w] = "percentage" => Valid("minimum", config["minimum"]))
    BY <1>3, <1>8 DEF CheckValidValue, Undisturbed
  <2>2. CASE ~Valid(key[w], config[key[w]])
    <3>1. pc'[w] = "setDefault" /\ key' = key
      BY <1>8, <2>2 DEF CheckValidValue, Goto
    <3> QED
      BY <1>3, <1>4, <1>5, <2>1, <2>2, <3>1 DEF Undisturbed
  <2>3. CASE Valid(key[w], config[key[w]]) /\ key[w] = "minimum"
    <3>1. pc'[w] = "check" /\ key'[w] = "percentage"
      BY <1>8, <2>3 DEF CheckValidValue, Goto
    <3> QED
      BY <1>3, <1>4, <1>5, <2>1, <2>3, <3>1 DEF Undisturbed
  <2>4. CASE Valid(key[w], config[key[w]]) /\ key[w] = "percentage"
    <3>1. pc'[w] = IF w \in old THEN "migrate" ELSE "use"
      BY <1>8, <2>4 DEF CheckValidValue, Goto
    <3>2. \A k \in Keys : Valid(k, config[k])
      BY <2>1, <2>4 DEF Keys
    <3>3. w \notin old => Effective(w) = loaded
      BY <2>1, <3>2 DEF Effective
    <3> QED
      BY <1>3, <1>4, <1>5, <2>1, <3>1, <3>2, <3>3 DEF Undisturbed
  <2> QED
    BY <2>2, <2>3, <2>4 DEF Keys
<1>9. CASE SetConfigMapDefaultValue(w)
  <2>1. /\ pc[w] = "setDefault" /\ pc'[w] = "use"
        /\ config' = [config EXCEPT ![key[w]] = DefaultOpConfig[key[w]]]
        /\ config = loaded /\ (key[w] = "percentage" => Valid("minimum", config["minimum"]))
        /\ ~Valid(key[w], config[key[w]])
    BY <1>3, <1>9 DEF SetConfigMapDefaultValue, Goto, Undisturbed
  <2>2. Effective(w) = [loaded EXCEPT ![key[w]] = DefaultOpConfig[key[w]]]
    <3>1. CASE key[w] = "minimum"
      BY <2>1, <3>1 DEF Effective, Keys
    <3>2. CASE key[w] = "percentage"
      BY <2>1, <3>2 DEF Effective, Keys
    <3> QED
      BY <3>1, <3>2 DEF Keys
  <2> QED
    BY <1>3, <1>5, <2>1, <2>2 DEF Undisturbed
<1>10. CASE UpdatePercentage(w)
  <2>1. /\ pc[w] = "migrate" /\ config' = config /\ configMap' = configMap
        /\ config = loaded /\ \A k \in Keys : Valid(k, config[k])
        /\ pc'[w] = IF config["percentage"] = 100 THEN "storeFifty" ELSE "write"
    BY <1>3, <1>10 DEF UpdatePercentage, Goto, Undisturbed
  <2>2. config["percentage"] # 100 => Effective(w) = loaded
    BY <2>1 DEF Effective
  <2> QED
    BY <1>3, <1>4, <1>5, <2>1, <2>2 DEF Undisturbed
<1>11. CASE StoreFifty(w)
  <2>1. /\ pc[w] = "storeFifty" /\ pc'[w] = "write" /\ configMap' = configMap
        /\ config' = [config EXCEPT !["percentage"] = 50]
        /\ config = loaded /\ config["percentage"] = 100
        /\ \A k \in Keys : Valid(k, config[k])
    BY <1>3, <1>11 DEF StoreFifty, Goto, Undisturbed
  <2>2. Effective(w) = [loaded EXCEPT !["percentage"] = 50]
    BY <2>1 DEF Effective
  <2> QED
    BY <1>3, <1>4, <1>5, <2>1, <2>2 DEF Undisturbed
<1>12. CASE UpdateConfigMap(w) \/ UpdateFails(w)
  <2>1. pc[w] = "write" /\ pc'[w] = "use" /\ config' = config
    BY <1>12 DEF UpdateConfigMap, UpdateFails, Goto
  <2> QED
    BY <1>3, <1>5, <2>1 DEF Undisturbed
<1> QED
  BY <1>6, <1>7, <1>8, <1>9, <1>10, <1>11, <1>12 DEF Step, Load, Check, Migrate

\* Every step of the system keeps what is known.
LEMMA UndisturbedStep ==
  ASSUME TypeOK, AllUndisturbed, [Next]_vars
  PROVE  AllUndisturbed'
<1> SUFFICES ASSUME NEW v \in Workers PROVE Undisturbed(v)'
  BY DEF AllUndisturbed
<1>1. TypeOK' /\ Undisturbed(v)
  BY TypeStep DEF AllUndisturbed
<1>2. ASSUME NEW w \in Workers, Step(w) \/ ReadFails(w) PROVE Undisturbed(v)'
  BY <1>1, <1>2, Own, Others
<1>3. CASE Edit
  <2>1. overlapped'[v] = TRUE \/ pc[v] = "idle"
    BY <1>3 DEF Edit, TypeOK
  <2> QED
    BY <1>1, <1>3, <2>1, Bystander DEF Edit
<1>4. CASE UNCHANGED vars
  BY <1>1, <1>4, Bystander DEF vars
<1> QED
  BY <1>2, <1>3, <1>4 DEF Next

\* The invariant of the theorems below.
LEMMA KnownAlways == Spec => [](TypeOK /\ AllUndisturbed)
<1>1. Init => AllUndisturbed
  BY DEF Init, AllUndisturbed, Undisturbed
<1> QED
  BY <1>1, TypeInit, TypeStep, UndisturbedStep, PTL DEF Spec

\* What a reconcile makes of a ConfigMap has a minimum that is positive.
LEMMA PositiveMinimum ==
  ASSUME NEW w \in Workers, read[w] \in Content
  PROVE  Effective(w)["minimum"] > 0
<1>1. Loaded(read[w]) \in [Keys -> Int]
  BY LoadedType
<1> QED
  BY <1>1, Defaults DEF Effective, Valid, Keys

\* However many reconciles share the map, one nobody came in between computes its
\* interval from what it read and checked: the loop over the interval ends.
THEOREM UsesOwn == Spec => UsesWhatItRead
<1>1. ASSUME TypeOK, AllUndisturbed, NEW w \in Workers, Use(w), read[w] # Nil, ~overlapped[w]
      PROVE  config = Effective(w) /\ config["minimum"] > 0
  <2>1. config = Effective(w)
    BY <1>1 DEF AllUndisturbed, Undisturbed, Use
  <2>2. read[w] \in Content
    BY <1>1 DEF TypeOK
  <2> QED
    BY <2>1, <2>2, PositiveMinimum
<1>2. TypeOK /\ AllUndisturbed /\ [Next]_vars =>
        [\A w \in Workers : Use(w) /\ read[w] # Nil /\ ~overlapped[w] =>
           config = Effective(w) /\ config["minimum"] > 0]_vars
  BY <1>1
<1> QED
  BY <1>2, KnownAlways, PTL DEF Spec, UsesWhatItRead

\* The migration of one reconcile among many touches the percentage alone, and only
\* one of 100 or the one the ConfigMap leaves out.
THEOREM Faithful == Spec => MigrationFaithful
<1>1. ASSUME TypeOK, AllUndisturbed, NEW w \in Workers, UpdateConfigMap(w), ~overlapped[w],
             configMap' # configMap
      PROVE  /\ configMap["percentage"] \in {100, Nil}
             /\ configMap' = [configMap EXCEPT !["percentage"] = 50]
  <2>1. /\ pc[w] = "write" /\ read[w] # Nil /\ w \in old
        /\ configMap' = [configMap EXCEPT !["percentage"] = config["percentage"]]
    BY <1>1 DEF UpdateConfigMap, TypeOK
  <2>2. /\ configMap = read[w] /\ config = Effective(w) /\ configMap \in Content
        /\ \A k \in Keys : Valid(k, Loaded(read[w])[k])
    BY <1>1, <2>1 DEF AllUndisturbed, Undisturbed, TypeOK
  <2>3. config["percentage"] # configMap["percentage"]
    BY <1>1, <2>1, <2>2 DEF Content
  <2>4. Loaded(configMap)["percentage"] =
          IF configMap["percentage"] = Nil THEN 50 ELSE configMap["percentage"]
    BY Defaults DEF Loaded, Keys
  <2> QED
    BY <2>1, <2>2, <2>3, <2>4, LoadedType, Defaults DEF Effective, Keys
<1>2. TypeOK /\ AllUndisturbed /\ [Next]_vars =>
        [\A w \in Workers :
           UpdateConfigMap(w) /\ ~overlapped[w] /\ configMap' # configMap =>
             /\ configMap["percentage"] \in {100, Nil}
             /\ configMap' = [configMap EXCEPT !["percentage"] = 50]]_vars
  BY <1>1
<1> QED
  BY <1>2, KnownAlways, PTL DEF Spec, MigrationFaithful
=============================================================================
