---------------------------- MODULE DetectorTest ----------------------------
(***************************************************************************)
(* detector/detector_test.c: fibers that read a word of a write-protected  *)
(* region, park in an offload and write the word plus one; the SIGSEGV     *)
(* handler compares the page's version with the clock at the fiber's park. *)
(* main() runs one schedule of two fibers on word 0; here any number of    *)
(* fibers runs in every order that a scheduler could resume them in, on    *)
(* words of any page.                                                      *)
(***************************************************************************)
EXTENDS Naturals

CONSTANTS
    DtFiber,
    DtWord,      \* words of the region
    DtPageOf     \* page of each word

ASSUME DtAssumption == DtPageOf \in [DtWord -> Nat]

DtPage == {DtPageOf[w] : w \in DtWord}

VARIABLES
    dtPc,        \* new, parked, done
    dtWord,      \* word that the fiber works on
    dtV,         \* v of body()
    dtParkClk,   \* park_clk
    dtMem,       \* the region
    dtProt,      \* pages that are write-protected
    dtPver, dtGclk, dtConflicts

dtVars == <<dtPc, dtWord, dtV, dtParkClk, dtMem, dtProt, dtPver, dtGclk, dtConflicts>>

DtInit ==
    /\ dtPc = [f \in DtFiber |-> "new"] /\ dtWord \in [DtFiber -> DtWord]
    /\ dtV = [f \in DtFiber |-> 0] /\ dtParkClk = [f \in DtFiber |-> 0]
    /\ dtMem = [w \in DtWord |-> 0] /\ dtProt = {}
    /\ dtPver = [p \in DtPage |-> 0] /\ dtGclk = 0 /\ dtConflicts = 0

\* protect_all(): every page of the region is read-only afterwards.
DtProtectAll == DtPage

\* The fiber reads the word and parks: park() notes the clock and protects
\* all pages again.
DtPark(f) ==
    /\ dtPc[f] = "new" /\ dtPc' = [dtPc EXCEPT ![f] = "parked"]
    /\ dtV' = [dtV EXCEPT ![f] = dtMem[dtWord[f]]]
    /\ dtParkClk' = [dtParkClk EXCEPT ![f] = dtGclk]
    /\ dtProt' = DtProtectAll
    /\ UNCHANGED <<dtWord, dtMem, dtPver, dtGclk, dtConflicts>>

\* Mutant: the handler lets the write through without a new page version.
DtSegHandlerNoVersion(f, p) ==
    /\ dtConflicts' = dtConflicts + (IF dtPver[p] > dtParkClk[f] THEN 1 ELSE 0)
    /\ dtGclk' = dtGclk + 1 /\ UNCHANGED dtPver

\* seg_handler() for a write of fiber f to page p.
DtSegHandler(f, p) ==
    /\ dtConflicts' = dtConflicts + (IF dtPver[p] > dtParkClk[f] THEN 1 ELSE 0)
    /\ dtGclk' = dtGclk + 1 /\ dtPver' = [dtPver EXCEPT ![p] = dtGclk + 1]

\* main() protects all pages and resumes the fiber; its store faults if the
\* page is protected, and the handler unprotects the page for the store.
DtResume(f) ==
    LET p == DtPageOf[dtWord[f]] IN
    /\ dtPc[f] = "parked" /\ dtPc' = [dtPc EXCEPT ![f] = "done"]
    /\ IF p \in DtProtectAll THEN DtSegHandler(f, p) ELSE UNCHANGED <<dtPver, dtGclk, dtConflicts>>
    /\ dtProt' = DtProtectAll \ {p}
    /\ dtMem' = [dtMem EXCEPT ![dtWord[f]] = dtV[f] + 1]
    /\ UNCHANGED <<dtWord, dtV, dtParkClk>>

DtNext == \E f \in DtFiber : DtPark(f) \/ DtResume(f)

DtSpec == DtInit /\ [][DtNext]_dtVars

-----------------------------------------------------------------------------
\* "CAUGHT THE CROSS-FIBER CONFLICT": a store that overwrites a value other
\* than the one its fiber read before the offload is counted as a conflict, in
\* every order of resumption and with words that share pages.
DtLostIsCaught ==
    [][\A f \in DtFiber :
          dtPc[f] = "parked" /\ dtPc'[f] = "done" /\ dtMem[dtWord[f]] # dtV[f]
              => dtConflicts' = dtConflicts + 1]_dtVars
=============================================================================
