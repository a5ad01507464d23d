------------------------------ MODULE EuiccChip ------------------------------
(* What the eSIM manager remembers of the eUICCs and the chip they are on:    *)
(* the scan of the candidate AIDs, the product data, which are read once and  *)
(* copied from cache to cache, and the list of the eUICCs discovered          *)
(* (internal/esim/manager.go).  The card may be changed for another at any    *)
(* time; the manager learns of it by the reset of the modem that follows.     *)
(* EsimManager has the locks and windows that decide when a scan may begin.   *)
EXTENDS Naturals, FiniteSets

CONSTANTS
    Card, Eid,
    Elements,       \* of a card and an AID: the EID of what answers, or NoEid
    Estk,           \* AIDs of the eSTK family; the candidates are 1, 2, ...
    Branded,        \* cards with an applet of product data
    NoEid, NoCard,
    MaxGeneration, MaxSwaps, MaxScans
VARIABLES
    card,           \* in the slot
    noticed,        \* the modem was reset since the card was changed
    generation,     \* overviewGeneration
    chip,           \* chipInfoCache
    shown,          \* overviewCache
    discovered,     \* discoveredEUICCs
    scan,           \* what each reader has read so far
    late,           \* caches written by a reader that began before the last reset
    swaps,
    scans           \* begun so far

caches == <<generation, chip, shown, discovered>>
bounds == <<swaps, scans>>
vars == <<card, noticed, caches, scan, late, bounds>>

Aid == DOMAIN Elements[CHOOSE k \in Card : TRUE]
Generation == 1..MaxGeneration
ChipReader == 0          \* GetEUICCChipInfo
GroupReader == MaxGeneration + 1  \* RefreshProfiles
Reader == Generation \cup {ChipReader, GroupReader}
Cache == {"chip", "shown", "discovered"}
Found == [aid : Aid, eid : Eid]
NoChip == [eids |-> {}, product |-> NoCard]
NoView == [eids |-> {}, product |-> NoCard, groups |-> {}]
NoScan == [at |-> "none"]
Begun == [at |-> "scan", aid |-> 1, found |-> {}, product |-> NoCard, old |-> FALSE]
EidsOf(k) == {Elements[k][a] : a \in Aid} \ {NoEid}

TypeOK ==
    /\ card \in Card /\ noticed \in BOOLEAN /\ generation \in Generation
    /\ chip.eids \subseteq Found /\ chip.product \in Card \cup {NoCard}
    /\ shown.eids \cup shown.groups \cup discovered \subseteq Found
    /\ \A r \in Reader : scan[r] = NoScan \/ scan[r].at \in {"scan", "product", "store"}
    /\ late \subseteq Cache /\ swaps \in 0..MaxSwaps
    /\ scans \in 0..MaxScans

Init ==
    /\ card \in Card /\ noticed = TRUE /\ generation = 1
    /\ chip = NoChip /\ shown = NoView /\ discovered = {}
    /\ scan = [r \in Reader |-> NoScan] /\ late = {} /\ swaps = 0 /\ scans = 0

Reads(r, what) == scan' = [scan EXCEPT ![r] = what]
-----------------------------------------------------------------------------
\* loadOverview for a generation the caller has read, GetEUICCChipInfo, and
\* RefreshProfiles.
Begins(r) ==
    /\ scan[r] = NoScan /\ Reads(r, Begun)
    /\ scans < MaxScans /\ scans' = scans + 1
    /\ UNCHANGED <<card, noticed, caches, late, swaps>>
Load(g) == g <= generation /\ shown = NoView /\ Begins(g)
GetChip == Begins(ChipReader)
RefreshProfiles == Begins(GroupReader)

\* shouldContinueAIDScanAfterSuccess
Continues(found, a) ==
    a \in Aid /\ (found = {} \/ (a \in Estk /\ \E f \in found : f.aid \in Estk))

\* mergeEUICCInfosLocked: an entry with the AID or the EID is overwritten, of
\* several the one whose AID is first.
Same(f, g) == f.aid = g.aid \/ f.eid = g.eid
Merged(known, f) ==
    LET same == {g \in known : Same(f, g)} IN
    IF same = {} THEN known \cup {f}
    ELSE (known \ {CHOOSE g \in same : \A h \in same : g.aid <= h.aid}) \cup {f}

\* doForEachEUICC: one AID, that the card has or not, or that fails; an EID seen
\* before in this scan is passed over.
Look(r) ==
    /\ scan[r].at = "scan" /\ Continues(scan[r].found, scan[r].aid)
    /\ LET a == scan[r].aid
           f == [aid |-> a, eid |-> Elements[card][a]] IN
       \/ /\ f.eid # NoEid /\ \A g \in scan[r].found : g.eid # f.eid
          /\ Reads(r, [scan[r] EXCEPT !.aid = a + 1, !.found = @ \cup {f}])
          /\ discovered' = Merged(discovered, f)
          /\ late' = IF scan[r].old THEN late \cup {"discovered"} ELSE late
       \/ /\ Reads(r, [scan[r] EXCEPT !.aid = a + 1])
          /\ UNCHANGED <<discovered, late>>
    /\ UNCHANGED <<card, noticed, generation, chip, shown, bounds>>

\* Nothing was found: an overview's failure takes the overview away.
Finds(r) ==
    /\ scan[r].at = "scan" /\ ~Continues(scan[r].found, scan[r].aid)
    /\ IF scan[r].found = {}
       THEN /\ Reads(r, NoScan)
            /\ shown' = IF r = generation THEN NoView ELSE shown
       ELSE /\ Reads(r, [scan[r] EXCEPT !.at = IF r = GroupReader THEN "store" ELSE "product"])
            /\ UNCHANGED shown
    /\ UNCHANGED <<card, noticed, generation, chip, discovered, late, bounds>>

\* The cached name and serial number are taken if there are any; else the applet
\* is asked (parseESTKmeInfo), which no channel or no answer may leave unknown,
\* and without its name one may be guessed by the first EID (predictSkuName).
Reusable(c) == c.product # NoCard  \* hasReusableChipProductInfo
CardOf(f) == CHOOSE k \in Card : f.eid \in EidsOf(k)
FirstOf(found) == CHOOSE f \in found : \A g \in found : f.aid <= g.aid
Applet == IF card \in Branded THEN {card, NoCard} ELSE {NoCard}
Guess(found) == {NoCard, CardOf(FirstOf(found))}
Product(r) ==
    /\ scan[r].at = "product"
    /\ \E k \in IF Reusable(chip) THEN {chip.product}
                ELSE Applet \cup Guess(scan[r].found) :
          Reads(r, [scan[r] EXCEPT !.at = "store", !.product = k,
                        !.old = @ \/ (Reusable(chip) /\ "chip" \in late)])
    /\ UNCHANGED <<card, noticed, caches, late, bounds>>

\* setOverviewCache: only of the current generation.
Store(g) ==
    /\ scan[g].at = "store" /\ Reads(g, NoScan)
    /\ IF g = generation
       THEN /\ chip' = [eids |-> scan[g].found, product |-> scan[g].product]
            /\ shown' = [eids |-> scan[g].found, product |-> scan[g].product,
                         groups |-> scan[g].found]
            /\ late' = (late \ {"chip", "shown"})
                          \cup (IF scan[g].old THEN {"chip", "shown"} ELSE {})
       ELSE UNCHANGED <<chip, shown, late>>
    /\ UNCHANGED <<card, noticed, generation, discovered, bounds>>

\* GetEUICCChipInfo and RefreshProfiles store whatever they have read.
StoreChip ==
    /\ scan[ChipReader].at = "store" /\ Reads(ChipReader, NoScan)
    /\ chip' = [eids |-> scan[ChipReader].found, product |-> scan[ChipReader].product]
    /\ late' = (late \ {"chip"}) \cup (IF scan[ChipReader].old THEN {"chip"} ELSE {})
    /\ UNCHANGED <<card, noticed, generation, shown, discovered, bounds>>
StoreProfiles ==
    /\ scan[GroupReader].at = "store" /\ Reads(GroupReader, NoScan)
    /\ shown' = [shown EXCEPT !.groups = scan[GroupReader].found]
    /\ late' = late \cup (IF scan[GroupReader].old THEN {"shown"} ELSE {})
    /\ UNCHANGED <<card, noticed, generation, chip, discovered, bounds>>

Swap ==
    /\ swaps < MaxSwaps /\ swaps' = swaps + 1
    /\ card' \in Card \ {card} /\ noticed' = FALSE
    /\ UNCHANGED <<caches, scan, late, scans>>

Raise == generation < MaxGeneration /\ generation' = generation + 1 /\ shown' = NoView

\* clearHardwareDiscoveryCachesLocked, of NotifyModemReset.
ResetKeepingChip ==  \* mutant: the chip is kept
    /\ Raise /\ discovered' = {} /\ noticed' = TRUE
    /\ scan' = [r \in Reader |-> IF scan[r] = NoScan THEN NoScan ELSE [scan[r] EXCEPT !.old = TRUE]]
    /\ late' = {} /\ UNCHANGED <<card, chip, bounds>>
Reset ==
    /\ Raise /\ chip' = NoChip /\ discovered' = {} /\ noticed' = TRUE
    /\ scan' = [r \in Reader |-> IF scan[r] = NoScan THEN NoScan ELSE [scan[r] EXCEPT !.old = TRUE]]
    /\ late' = {} /\ UNCHANGED <<card, bounds>>

\* invalidateOverviewCache, after an operation on the card.
Invalidate ==
    /\ Raise /\ chip' = NoChip /\ late' = late \ {"chip", "shown"}
    /\ UNCHANGED <<card, noticed, discovered, scan, bounds>>

\* RefreshOverview keeps the product data it has.
Refresh ==
    /\ Raise /\ discovered' = {}
    /\ chip' = IF Reusable(chip) THEN chip ELSE NoChip
    /\ late' = late \ ({"shown", "discovered"} \cup (IF Reusable(chip) THEN {} ELSE {"chip"}))
    /\ UNCHANGED <<card, noticed, scan, bounds>>

Next ==
    \/ \E g \in Generation : Load(g) \/ Store(g)
    \/ \E r \in Reader : Look(r) \/ Finds(r) \/ Product(r)
    \/ GetChip \/ StoreChip \/ RefreshProfiles \/ StoreProfiles
    \/ Swap \/ Reset \/ Invalidate \/ Refresh

\* Once the reset that follows a change of the card was noticed nothing that is
\* kept is of the card before: not the name and serial number, which travel from
\* one overview to the next, not the eUICCs nor the groups of profiles - but what
\* a reader stored that began before it, where nothing compares generations
\* (GetEUICCChipInfo, RefreshProfiles, SeedDiscoveredEUICCs).
IsOfCard(found) == \A f \in found : f.eid \in EidsOf(card)
ChipIsOfCard ==
    noticed =>
        /\ "chip" \notin late => IsOfCard(chip.eids) /\ chip.product \in {NoCard, card}
        /\ "shown" \notin late => /\ IsOfCard(shown.eids \cup shown.groups)
                                  /\ shown.product \in {NoCard, card}
        /\ "discovered" \notin late => IsOfCard(discovered)
=============================================================================
