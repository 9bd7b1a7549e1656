----------------------------- MODULE PageGrant -----------------------------
(***************************************************************************)
(* What hp_alloc promises its caller, without probing, files or lists: a   *)
(* process collects pages of a pool it shares, and in the end is granted   *)
(* a region of distinct pages, is refused, or dies; a region called even   *)
(* holds its quota of every class; whoever holds nothing has returned all. *)
(***************************************************************************)
EXTENDS Integers, FiniteSets

CONSTANTS Page, NoPage, PageClass, K, NPages

VARIABLES
    pool,    \* pages nobody holds
    held,    \* pages the process holds
    status,  \* "asking", "granted", "refused", "dead" or "released"
    region,  \* the page of each slot, once granted
    even     \* the region is reported balanced

vars == <<pool, held, status, region, even>>

Slot == 0 .. NPages - 1
NoRegion == [s \in Slot |-> NoPage]
Quota(c) == NPages \div K + (IF c < NPages % K THEN 1 ELSE 0)

Init == /\ pool \in SUBSET Page
        /\ held = {}
        /\ status = "asking"
        /\ region = NoRegion
        /\ even = FALSE

Take == /\ status = "asking"
        /\ \E p \in pool : pool' = pool \ {p} /\ held' = held \cup {p}
        /\ UNCHANGED <<status, region, even>>

\* Pages go back in any portion while the region is not settled.
GiveBack == /\ status = "asking"
            /\ \E S \in SUBSET held : pool' = pool \cup S /\ held' = held \ S
            /\ UNCHANGED <<status, region, even>>

EvenMix(r) == \A c \in 0 .. K - 1 : Cardinality({s \in Slot : PageClass[r[s]] = c}) = Quota(c)

Grant == /\ status = "asking"
         /\ status' = "granted"
         /\ region' \in [Slot -> held]
         /\ \A s, t \in Slot : region'[s] = region'[t] => s = t
         /\ even' \in BOOLEAN
         /\ even' => EvenMix(region')
         /\ UNCHANGED <<pool, held>>

Refuse == /\ status = "asking"
          /\ held = {}
          /\ status' = "refused"
          /\ UNCHANGED <<pool, held, region, even>>

\* The process is killed, or its owner frees the region: nothing stays behind.
End(from, to) == /\ status = from
                 /\ status' = to
                 /\ pool' = pool \cup held
                 /\ held' = {}
                 /\ region' = NoRegion
                 /\ even' = FALSE

\* Other processes take pages of the pool or return theirs.
Others == \E p \in Page \ held :
    /\ pool' = IF p \in pool THEN pool \ {p} ELSE pool \cup {p}
    /\ UNCHANGED <<held, status, region, even>>

Next == \/ Take \/ GiveBack \/ Grant \/ Refuse
        \/ End("asking", "dead") \/ End("granted", "released")
        \/ Others

Spec == Init /\ [][Next]_vars
=============================================================================
