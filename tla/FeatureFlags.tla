---------------------------- MODULE FeatureFlags ----------------------------
(***************************************************************************)
(* Which features a company may use: the toggles and the operational       *)
(* switches of the administrator, the levels of the plan, and the          *)
(* overrides that win over the plan.  The flags that follow from them are  *)
(* cached in Redis; the levels the API gate looks at are read from the     *)
(* rows every time.  A request reads, caches and writes in steps, and the  *)
(* recomputation of the entitlement clears the cache inside its            *)
(* transaction, before the row is there for others to read.                *)
(***************************************************************************)
EXTENDS Naturals, FiniteSets

CONSTANTS
    Features,       \* roadmap features: off by default
    Planned,        \* features the plan that is sold gives; it names no other
    FlagTasks,      \* requests under way
    MaxFlagTasks,   \* bound: requests
    MaxDelFailures  \* bound: deletions Redis did not take

ASSUME FlagsConstants == Planned \subseteq Features /\ {MaxFlagTasks, MaxDelFailures} \subseteq Nat

VARIABLES
    toggle,         \* tenant_feature_flags
    switch,         \* tenant_feature_controls.operational_flags
    bought,         \* what recompute reads: the subscription and a manual grant
    entRow,         \* tenant_entitlements
    override,       \* tenant_entitlement_overrides in force
    flagCache,      \* zapcall:tenant:<id>:feature-flags
    flagTask,       \* the requests
    flagsLeft,      \* what the bounds have left: requests and failed deletions
    askedFor        \* ghost: what was last written for each feature

flagVars == <<toggle, switch, bought, entRow, override, flagCache, flagTask, flagsLeft, askedFor>>

Unset == "unset"
NoFlags == [flags |-> {}, known |-> FALSE, late |-> FALSE]
NoFlagTask == [pc |-> "idle"]
GivenLevels == {Unset, "none", "full"}
Subscriptions == {"none", "live", "late"}
NoLevels == [f \in Features |-> Unset]
PlanLevels == [f \in Features |-> IF f \in Planned THEN "full" ELSE Unset]

FlagsTypeOK ==
    /\ toggle \in [Features -> BOOLEAN] /\ switch \in [Features -> {Unset, "on", "off"}]
    /\ bought \in [sub : Subscriptions, grant : BOOLEAN]
    /\ entRow \in [mode : {"full", "read_only"}, source : {"none", "stripe", "manual_grant"},
                   levels : {NoLevels, PlanLevels}, before : {NoLevels, PlanLevels}]
    /\ override \in [Features -> GivenLevels]
    /\ flagCache.flags \subseteq Features
    /\ \A t \in FlagTasks : flagTask[t].pc \in {"idle", "row", "overrides", "cache", "toggles",
                                                "switches", "delete", "commit"}

FlagsInit ==
    /\ toggle = [f \in Features |-> FALSE] /\ switch = [f \in Features |-> Unset]
    /\ bought = [sub |-> "none", grant |-> FALSE]
    /\ entRow = [mode |-> "read_only", source |-> "none", levels |-> NoLevels,
                 before |-> NoLevels]
    /\ override = NoLevels
    /\ flagCache = NoFlags /\ flagTask = [t \in FlagTasks |-> NoFlagTask]
    /\ flagsLeft = [tasks |-> MaxFlagTasks, dels |-> MaxDelFailures]
    /\ askedFor = toggle

-----------------------------------------------------------------------------
(* The rules.  A row as get() reads it: toggles, switches, entitlement.    *)
Row == [toggle |-> toggle, switch |-> switch, ent |-> entRow]

PlanDecides(r) == r.ent.mode = "full" /\ r.ent.source # "manual_grant"

ActiveLevel(f, r, over) == IF over[f] # Unset THEN over[f] ELSE r.ent.levels[f]

HistoricalLevel(f, r, over) ==
    IF ActiveLevel(f, r, over) # Unset THEN ActiveLevel(f, r, over) ELSE r.ent.before[f]

FlagOn(f, r, over) ==
    LET level == IF ~PlanDecides(r) THEN HistoricalLevel(f, r, over)
                 ELSE IF ActiveLevel(f, r, over) = Unset THEN "none"
                 ELSE ActiveLevel(f, r, over)
    IN  /\ r.switch[f] # "off"
        /\ IF level = Unset THEN r.toggle[f] ELSE level # "none"

FlagsOf(r, over) == {f \in Features : FlagOn(f, r, over)}

(* access_until of the row has passed and nothing recomputed it yet.       *)
Lapsed ==
    /\ entRow.mode = "full"
    /\ IF entRow.source = "stripe" THEN bought.sub # "live" ELSE ~bought.grant

FullyEntitled == entRow.mode = "full" /\ ~Lapsed

(* The levels as they were read before: without the toggles.               *)
LevelWithoutToggles(f) ==
    LET known == HistoricalLevel(f, Row, override)
    IN  IF switch[f] = "off" \/ known \in {Unset, "none"} THEN "none"
        ELSE IF FullyEntitled THEN known ELSE "read_only"

LevelOf(f) ==
    LET known == HistoricalLevel(f, Row, override)
        configured == IF known # Unset THEN known
                      ELSE IF FullyEntitled /\ PlanDecides(Row) THEN "none"
                      ELSE IF toggle[f] THEN "full" ELSE "none"
    IN  IF switch[f] = "off" \/ configured = "none" THEN "none"
        ELSE IF FullyEntitled THEN configured ELSE "read_only"

(* Has assertEnabled() let a request through?                              *)
LetThrough(f, reads) == LevelOf(f) = "full" \/ (LevelOf(f) = "read_only" /\ reads)

-----------------------------------------------------------------------------
(* A request: get() alone, or before the writes of update().               *)
step(t, next) == flagTask' = [flagTask EXCEPT ![t] = next]

Begins(t) ==
    /\ flagTask[t].pc = "idle" /\ flagsLeft.tasks > 0
    /\ flagsLeft' = [flagsLeft EXCEPT !.tasks = @ - 1]

AfterGet(k) == IF k.kind = "update" THEN [k EXCEPT !.pc = "toggles"] ELSE NoFlagTask

(* get(): the cache answers, or the row is read, then the overrides, then   *)
(* the flags are cached whatever has changed meanwhile.                     *)
LookInCache(t, k) ==
    /\ Begins(t)
    /\ step(t, IF flagCache.known THEN AfterGet(k) ELSE [k EXCEPT !.pc = "row"])
    /\ UNCHANGED <<toggle, switch, bought, entRow, override, flagCache, askedFor>>

BeginGet(t) == LookInCache(t, [pc |-> "look", kind |-> "get"])
BeginUpdate(t) ==
    \E f \in Features, v \in BOOLEAN :
        LookInCache(t, [pc |-> "look", kind |-> "update", feature |-> f, value |-> v])

ReadRow(t) ==
    /\ flagTask[t].pc = "row"
    /\ step(t, [pc |-> "overrides", row |-> Row, after |-> AfterGet(flagTask[t])])
    /\ UNCHANGED <<toggle, switch, bought, entRow, override, flagCache, flagsLeft, askedFor>>

ReadOverrides(t) ==
    /\ flagTask[t].pc = "overrides"
    /\ step(t, [pc |-> "cache", row |-> flagTask[t].row, over |-> override,
                after |-> flagTask[t].after])
    /\ UNCHANGED <<toggle, switch, bought, entRow, override, flagCache, flagsLeft, askedFor>>

SetCache(t) ==
    /\ flagTask[t].pc = "cache"
    /\ LET k == flagTask[t]
       IN  /\ flagCache' = [flags |-> FlagsOf(k.row, k.over), known |-> TRUE,
                            late |-> k.row # Row \/ k.over # override]
           /\ step(t, k.after)
    /\ UNCHANGED <<toggle, switch, bought, entRow, override, flagsLeft, askedFor>>

(* update(): the column that was asked for and no other, then its switch.  *)
(* WrittenAll is the row as it was written before: the flags in force too. *)
WrittenAll(f, v) == [g \in Features |-> IF g = f THEN v ELSE g \in flagCache.flags]
Written(f, v) == [toggle EXCEPT ![f] = v]

WriteToggle(t) ==
    /\ flagTask[t].pc = "toggles"
    /\ LET k == flagTask[t]
       IN  /\ toggle' = Written(k.feature, k.value)
           /\ askedFor' = [askedFor EXCEPT ![k.feature] = k.value]
           /\ step(t, [k EXCEPT !.pc = "switches"])
    /\ UNCHANGED <<switch, bought, entRow, override, flagCache, flagsLeft>>

WriteSwitch(t) ==
    /\ flagTask[t].pc = "switches"
    /\ switch' = [switch EXCEPT ![flagTask[t].feature] = IF flagTask[t].value THEN "on" ELSE "off"]
    /\ step(t, [pc |-> "delete"])
    /\ UNCHANGED <<toggle, bought, entRow, override, flagCache, flagsLeft, askedFor>>

(* The cache is cleared; what Redis refuses is ignored, and the entry that  *)
(* stays is marked.                                                         *)
NotCleared == flagCache
Cleared == NoFlags
DelRefused ==
    /\ flagsLeft.dels > 0 /\ flagsLeft' = [flagsLeft EXCEPT !.dels = @ - 1]
    /\ flagCache' = [flagCache EXCEPT !.late = flagCache.known]

DeleteCache(t) ==
    /\ flagTask[t].pc = "delete"
    /\ step(t, NoFlagTask)
    /\ (flagCache' = Cleared /\ UNCHANGED flagsLeft) \/ DelRefused
    /\ UNCHANGED <<toggle, switch, bought, entRow, override, askedFor>>

-----------------------------------------------------------------------------
(* createOverride(), revokeOverride(): the row, then the cache.            *)
SetOverride(t) ==
    /\ Begins(t)
    /\ \E f \in Features, level \in GivenLevels :
        /\ level # override[f] /\ override' = [override EXCEPT ![f] = level]
    /\ step(t, [pc |-> "delete"])
    /\ UNCHANGED <<toggle, switch, bought, entRow, flagCache, askedFor>>

(* Grants, paid invoices and cancellations recompute the entitlement in the *)
(* transaction that records them: the cache first, then the commit.         *)
EntChanges == {"pays", "ends", "grants", "revokes", "again"}
Bought(c, b) ==
    CASE c = "pays" -> [b EXCEPT !.sub = "live"] [] c = "ends" -> [b EXCEPT !.sub = "late"]
      [] c = "grants" -> [b EXCEPT !.grant = TRUE] [] c = "revokes" -> [b EXCEPT !.grant = FALSE]
      [] c = "again" -> b

Recompute(b) ==
    CASE b.grant -> [mode |-> "full", source |-> "manual_grant", levels |-> NoLevels,
                     before |-> entRow.before]
      [] ~b.grant /\ b.sub = "live" -> [mode |-> "full", source |-> "stripe",
                                        levels |-> PlanLevels, before |-> PlanLevels]
      [] ~b.grant /\ b.sub = "late" -> [mode |-> "read_only", source |-> "stripe",
                                        levels |-> PlanLevels, before |-> entRow.before]
      [] OTHER -> [mode |-> "read_only", source |-> "none", levels |-> NoLevels,
                   before |-> entRow.before]

BeginRecompute(t) ==
    /\ flagTask[t].pc = "idle" /\ flagsLeft.tasks > 0
    /\ \A u \in FlagTasks : flagTask[u].pc # "commit"       \* the lock of the company
    /\ \E c \in EntChanges : step(t, [pc |-> "commit", change |-> c, read |-> Bought(c, bought)])
    /\ \/ flagCache' = Cleared /\ flagsLeft' = [flagsLeft EXCEPT !.tasks = @ - 1]
       \/ /\ flagsLeft.dels > 0
          /\ flagsLeft' = [tasks |-> flagsLeft.tasks - 1, dels |-> flagsLeft.dels - 1]
          /\ flagCache' = [flagCache EXCEPT !.late = flagCache.known]
    /\ UNCHANGED <<toggle, switch, bought, entRow, override, askedFor>>

CommitRecompute(t) ==
    /\ flagTask[t].pc = "commit"
    /\ bought' = Bought(flagTask[t].change, bought) /\ entRow' = Recompute(flagTask[t].read)
    /\ flagCache' = [flagCache EXCEPT !.late = flagCache.known]
    /\ step(t, NoFlagTask)
    /\ UNCHANGED <<toggle, switch, override, flagsLeft, askedFor>>

(* Time: a period or a grant ends before anything recomputes; the entry    *)
(* in Redis expires after 60 seconds.                                      *)
AccessEnds ==
    /\ \/ bought.sub = "live" /\ bought' = [bought EXCEPT !.sub = "late"]
       \/ bought.grant /\ bought' = [bought EXCEPT !.grant = FALSE]
    /\ UNCHANGED <<toggle, switch, entRow, override, flagCache, flagTask, flagsLeft, askedFor>>

CacheExpires ==
    /\ flagCache.known /\ flagCache' = NoFlags
    /\ UNCHANGED <<toggle, switch, bought, entRow, override, flagTask, flagsLeft, askedFor>>

FlagTaskStep(t) ==
    \/ BeginGet(t) \/ BeginUpdate(t) \/ ReadRow(t) \/ ReadOverrides(t) \/ SetCache(t)
    \/ WriteToggle(t) \/ WriteSwitch(t) \/ DeleteCache(t)
    \/ SetOverride(t) \/ BeginRecompute(t) \/ CommitRecompute(t)

FlagsNext == AccessEnds \/ CacheExpires \/ \E t \in FlagTasks : FlagTaskStep(t)

FlagsSpec == FlagsInit /\ [][FlagsNext]_flagVars

-----------------------------------------------------------------------------
(* The cached flags are those of the rows.  Three cases are known and end  *)
(* with the 60 seconds of the entry: a reading that a write overtook before *)
(* it was cached, a deletion Redis refused, and a recomputation that       *)
(* cleared the cache before its commit.                                    *)
Changing == \E t \in FlagTasks : flagTask[t].pc \in {"switches", "delete", "commit"}

FlagsCurrent ==
    flagCache.known /\ ~flagCache.late /\ ~Changing => flagCache.flags = FlagsOf(Row, override)

(* Toggles of different features commute: each column holds what was last  *)
(* asked for it, however the requests overlap.                             *)
TogglesCommute == toggle = askedFor

(* The panel and the gate of the API agree: a feature is on exactly when    *)
(* its level lets something through, unless the access has ended and        *)
(* nothing recomputed the row yet.                                          *)
GateAgrees == ~Lapsed => \A f \in Features : FlagOn(f, Row, override) = LetThrough(f, TRUE)

FlagsInv == FlagsTypeOK /\ FlagsCurrent /\ TogglesCommute /\ GateAgrees
=============================================================================
