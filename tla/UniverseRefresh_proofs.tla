----------------------- MODULE UniverseRefresh_proofs -----------------------
(***************************************************************************)
(* Proofs about UniverseRefresh: a submitted universe is sound whatever    *)
(* the editions list and whenever they are published, and a completed      *)
(* refresh submitted the pages of its journal within its budget.           *)
(*                                                                         *)
(* What makes the properties inductive: a journal holds pages of its own   *)
(* feed only and never replaces one; every universe the Source has taken   *)
(* was made of all the pages it needs, Nasdaq's two directories of one     *)
(* date, and lists no symbol twice; a manifest is frozen, and a round      *)
(* completed, only after the submission; and an attempt is reserved before *)
(* the provider is reached, so that the calls of a work stay below what it *)
(* reserved.                                                               *)
(***************************************************************************)
EXTENDS UniverseRefresh, WellFoundedInduction, TLAPS

PageSets == [PageNames -> Days \cup {Unset}]

OwnOnly(pages) == \A p \in PageNames \ OwnPages(style) : pages[p] = Unset
Complete(pages) == \A p \in OwnPages(style) : pages[p] # Unset \/ (style = "tw" /\ p = "catalogue")

\* The attempt that is reserved and has not reached the provider.
Reserved(d) == IF run.pc = "fetch" /\ ~ run.dispatched /\ run.work = d THEN 1 ELSE 0

Made(u) == /\ u.of \in Days /\ u.pages \in PageSets
           /\ Coherent(u.pages) /\ OwnOnly(u.pages) /\ Complete(u.pages)
           /\ ~ Duplicated(u.members)
           /\ \E g \in BOOLEAN : u.members = UniverseOf(u.pages, g)
ReleasedInv == \A u \in released : Made(u)
PagesInv == \A d \in Days : OwnOnly(work[d].pages)
BudgetInv == /\ \A d \in Days : work[d].calls + Reserved(d) <= work[d].budget
             /\ run.pc = "fetch" => MyWork.budget >= 1
DoneInv == \A d \in Days : (work[d].frozen \/ work[d].st = "completed") => Submitted(d)
Ending == run.pc = "freeze" \/ (run.pc \in {"close", "settle"} /\ run.outcome \in {"completed", "replayed"})
RunInv == /\ run.gaps => style = "tw"
          /\ Ending => Submitted(run.work)
RefreshInv == RefreshTypeOK /\ ReleasedInv /\ PagesInv /\ BudgetInv /\ DoneInv /\ RunInv

---------------------------------------------------------------------------
(* From pages to members. *)

\* A set of one element has the element that CHOOSE picks.
LEMMA OnlyOne == ASSUME NEW S, One(S) PROVE Only(S) \in S /\ S = {Only(S)}
  BY DEF One, Only

\* The only candidate of a listing is the row of its exchange, or the symbol's only row, of its company.
LEMMA CandidateRow ==
    ASSUME NEW l, NEW rows, One(UsCandidates(l, rows))
    PROVE  LET r == Only(UsCandidates(l, rows))
           IN  /\ r \in rows /\ r.symbol = l.symbol
               /\ r.exchange = l.exchange \/ (r.name = l.name /\ \A q \in rows : q.symbol = l.symbol => q = r)
<1> DEFINE r == Only(UsCandidates(l, rows))
<1>1. r \in UsCandidates(l, rows)  BY OnlyOne
<1>2. CASE Exact(l, rows) # {}
  <2>1. r \in Exact(l, rows)  BY <1>1, <1>2 DEF UsCandidates
  <2> QED  BY <2>1 DEF Exact
<1>3. CASE Exact(l, rows) = {}
  <2>1. One(Elsewhere(l, rows)) /\ r \in Elsewhere(l, rows) /\ SameCompany(l, r)
    BY <1>1, <1>3 DEF UsCandidates
  <2>2. PICK x \in Elsewhere(l, rows) : Elsewhere(l, rows) = {x}  BY <2>1 DEF One
  <2>3. \A q \in rows : q.symbol = l.symbol => q = r
    <3> SUFFICES ASSUME NEW q \in rows, q.symbol = l.symbol PROVE q = r  OBVIOUS
    <3>1. q \notin Exact(l, rows)  BY <1>3
    <3>2. q \in Elsewhere(l, rows)  BY <3>1 DEF Exact, Elsewhere
    <3> QED  BY <2>1, <2>2, <3>2
  <2> QED  BY <2>1, <2>3 DEF Elsewhere, SameCompany
<1> QED  BY <1>2, <1>3

\* The pages of a feed, as sets.
LEMMA PagesOfStyle ==
    /\ OwnPages("us") = {"catalogue", "listed", "other"}
    /\ OwnPages("tw") = {"company", "companyOtc", "isin", "isinOtc", "catalogue"}
    /\ \A s : DOMAIN Pages(s) \subseteq {1, 2, 3, 4, 5}
<1>1. DOMAIN Pages("us") = 1 .. 3 /\ DOMAIN Pages("tw") = 1 .. 5  BY DEF Pages
<1>2. 1 .. 3 = {1, 2, 3} /\ 1 .. 5 = {1, 2, 3, 4, 5}  OBVIOUS
<1>3. OwnPages("us") = {"catalogue", "listed", "other"}  BY <1>1, <1>2 DEF OwnPages, Pages
<1>4. OwnPages("tw") = {"company", "companyOtc", "isin", "isinOtc", "catalogue"}  BY <1>1, <1>2 DEF OwnPages, Pages
<1>5. \A s : Pages(s) = Pages("us") \/ Pages(s) = Pages("tw")  BY DEF Pages
<1>6. \A s : DOMAIN Pages(s) \subseteq {1, 2, 3, 4, 5}  BY <1>1, <1>2, <1>5
<1> QED  BY <1>3, <1>4, <1>6

\* A symbol that every edition lists is listed by directories of one date, whichever that is.
LEMMA LastingIsListed ==
    ASSUME NEW pages \in PageSets, style \in {"us", "tw"}, Coherent(pages), Complete(pages), ~ Joined(pages),
           NEW symbol, Lasting(symbol)
    PROVE  \E k \in Listings(pages) : k.symbol = symbol
<1> DEFINE d == IF style = "us" THEN pages["listed"] ELSE pages["isin"]
<1>1. d \in Days
  <2>1. OwnPages("us") = {"catalogue", "listed", "other"} /\ "isin" \in OwnPages("tw")  BY PagesOfStyle
  <2>2. d # Unset  BY <2>1 DEF Complete
  <2> QED  BY <2>2 DEF PageSets, PageNames
<1>2. Listings(EditionOf(d)) = Listings(pages)
  <2>1. EditionOf(d)["listed"] = d /\ EditionOf(d)["other"] = d /\ EditionOf(d)["isin"] = d /\ EditionOf(d)["isinOtc"] = d
    BY DEF EditionOf, PageNames
  <2>2. CASE style = "us"  BY <2>1, <2>2 DEF Listings, Coherent
  <2>3. CASE style = "tw"  BY <2>1, <2>3 DEF Listings, Joined
  <2> QED  BY <2>2, <2>3
<1>3. \E k \in Listings(EditionOf(d)) : k.symbol = symbol  BY <1>1 DEF Lasting
<1> QED  BY <1>2, <1>3

\* A member carries the symbol, the exchange and the name of a listing.
LEMMA MemberOfListing ==
    ASSUME NEW pages, NEW g, NEW m \in UniverseOf(pages, g)
    PROVE  \E l \in Listings(pages) :
              /\ m.symbol = l.symbol /\ m.exchange = l.exchange /\ m.name = l.name
              /\ style = "us" => (m = MapUs(l, Rows(pages)) /\ InUsScope(l, Rows(pages)))
              /\ style # "us" => m = MapTw(l, Companies(pages), Rows(pages), g)
<1>1. CASE style = "us"
  <2>1. PICK l \in {x \in Listings(pages) : InUsScope(x, Rows(pages))} : m = MapUs(l, Rows(pages))
    BY <1>1 DEF UniverseOf
  <2>2. m.symbol = l.symbol /\ m.exchange = l.exchange /\ m.name = l.name  BY <2>1 DEF MapUs
  <2> QED  BY <1>1, <2>1, <2>2
<1>2. CASE style # "us"
  <2>1. PICK l \in Listings(pages) : m = MapTw(l, Companies(pages), Rows(pages), g)
    BY <1>2 DEF UniverseOf
  <2>2. m.symbol = l.symbol /\ m.exchange = l.exchange /\ m.name = l.name  BY <2>1 DEF MapTw
  <2> QED  BY <1>2, <2>1, <2>2
<1> QED  BY <1>1, <1>2

\* A universe that the Source took, made of coherent pages, lists no symbol twice and loses none
\* that every edition lists.
LEMMA MadeIsOnceListed == ASSUME NEW u, style \in {"us", "tw"}, Made(u) PROVE OnceListed(u)
<1>1. \A m, n \in u.members : m.symbol = n.symbol => m = n  BY DEF Made, Duplicated
<1>2. ASSUME NEW d \in Days, NEW l \in Listings(EditionOf(d)), Lasting(l.symbol), ~ Joined(u.pages)
      PROVE  \E k \in Listings(u.pages) : k.symbol = l.symbol
  <2>1. u.pages \in PageSets /\ Coherent(u.pages) /\ Complete(u.pages)  BY DEF Made
  <2> QED  BY <1>2, <2>1, LastingIsListed
<1> QED  BY <1>1, <1>2 DEF OnceListed

\* The only candidate of a listing is a row of its own, of the row's type.
LEMMA CandidateIsRow ==
    ASSUME NEW l, NEW rows, One(UsCandidates(l, rows)), NEW types, Only(UsCandidates(l, rows)).type \in types
    PROVE  RowOf(l, rows, types)
<1> DEFINE r == Only(UsCandidates(l, rows))
<1>1. /\ r \in rows /\ r.symbol = l.symbol
      /\ r.exchange = l.exchange \/ (r.name = l.name /\ \A q \in rows : q.symbol = l.symbol => q = r)
  BY CandidateRow
<1>2. r.type \in types  OBVIOUS
<1> HIDE DEF r
<1> QED  BY <1>1, <1>2 DEF RowOf

\* What a universe leaves out has a row of an excluded type, or is a fund without any.
LEMMA MadeLeavesOut == ASSUME NEW u, style \in {"us", "tw"}, Made(u) PROVE LeftOutRightly(u)
<1>1. PICK g \in BOOLEAN : u.members = UniverseOf(u.pages, g)  BY DEF Made
<1> SUFFICES ASSUME NEW l \in Listings(u.pages)
             PROVE  \/ \E m \in u.members : SamePage(m, l)
                    \/ style = "us" /\ RowOf(l, Rows(u.pages), OutOfScopeTypes)
                    \/ style = "us" /\ l.fund /\ \A r \in Rows(u.pages) : r.symbol # l.symbol
  BY DEF LeftOutRightly
<1> DEFINE rows == Rows(u.pages)
<1>2. CASE style = "us" /\ InUsScope(l, rows)
  <2>1. MapUs(l, rows) \in u.members  BY <1>1, <1>2 DEF UniverseOf
  <2>2. SamePage(MapUs(l, rows), l)  BY DEF SamePage, MapUs
  <2> QED  BY <2>1, <2>2
<1>3. CASE style = "us" /\ ~ InUsScope(l, rows)
  <2> HIDE DEF rows
  <2>1. \/ One(UsCandidates(l, rows)) /\ Only(UsCandidates(l, rows)).type \in OutOfScopeTypes
        \/ l.fund /\ \A r \in rows : r.symbol # l.symbol
    BY <1>3 DEF InUsScope
  <2>2. RowOf(l, rows, OutOfScopeTypes) \/ (l.fund /\ \A r \in rows : r.symbol # l.symbol)
    BY <2>1, CandidateIsRow
  <2> QED  BY <1>3, <2>2 DEF rows
<1>4. CASE style # "us"
  <2> DEFINE m == MapTw(l, Companies(u.pages), rows, g)
  <2>1. m \in u.members  BY <1>1, <1>4 DEF UniverseOf
  <2>2. SamePage(m, l)  BY DEF SamePage, MapTw
  <2> QED  BY <2>1, <2>2
<1> QED  BY <1>2, <1>3, <1>4

\* A mapped member has an equity row of its own, or a company of its exchange.
LEMMA MadeMaps == ASSUME NEW u, style \in {"us", "tw"}, Made(u) PROVE MappedRightly(u)
<1>1. PICK g \in BOOLEAN : u.members = UniverseOf(u.pages, g)  BY DEF Made
<1> SUFFICES ASSUME NEW m \in u.members, m.mapped
             PROVE  \/ style = "us" /\ RowOf(m, Rows(u.pages), EquityTypes)
                    \/ style = "tw" /\ \E c \in Companies(u.pages) : SamePage(m, c)
  BY DEF MappedRightly
<1> DEFINE rows == Rows(u.pages)
<1>2. PICK l \in Listings(u.pages) : /\ m.symbol = l.symbol /\ m.exchange = l.exchange /\ m.name = l.name
                                     /\ style = "us" => m = MapUs(l, rows)
                                     /\ style # "us" => m = MapTw(l, Companies(u.pages), rows, g)
  BY <1>1, MemberOfListing
<1> HIDE DEF rows
<1>3. CASE style = "us"
  <2>0. m = MapUs(l, rows) /\ m.mapped  BY <1>2, <1>3
  <2>1. One(UsCandidates(l, rows)) /\ Only(UsCandidates(l, rows)).type \in EquityTypes  BY <2>0 DEF MapUs
  <2>2. RowOf(l, rows, EquityTypes)  BY <2>1, CandidateIsRow
  <2>3. RowOf(m, rows, EquityTypes)  BY <1>2, <2>2 DEF RowOf
  <2> QED  BY <1>3, <2>3 DEF rows
<1>4. CASE style = "tw"
  <2> DEFINE c == [symbol |-> l.symbol, exchange |-> l.exchange]
             k == IF c \in Companies(u.pages) THEN l.class ELSE "gap"
  <2>0. m = MapTw(l, Companies(u.pages), rows, g) /\ m.mapped  BY <1>2, <1>4
  <2>1. k # "gap"  BY <2>0 DEF MapTw
  <2>2. c \in Companies(u.pages)  BY <2>1
  <2>3. SamePage(m, c)  BY <1>2 DEF SamePage
  <2> QED  BY <1>4, <2>2, <2>3
<1> QED  BY <1>3, <1>4

---------------------------------------------------------------------------
(* Steps. *)

\* The page that is asked for is one of the feed's, and the journal does not have it yet.
LEMMA NextPageIsMissing ==
    ASSUME Missing # {}, style \in {"us", "tw"}
    PROVE  NextPage \in OwnPages(style) /\ NextPage \in PageNames /\ MyWork.pages[NextPage] = Unset
<1> DEFINE i == CHOOSE i \in Missing : \A j \in Missing : i <= j
<1>1. Missing \subseteq {1, 2, 3, 4, 5}  BY PagesOfStyle DEF Missing
<1>2. \E x \in Missing : \A y \in Missing : x <= y
  <2>1. CASE 1 \in Missing  BY <1>1, <2>1
  <2>2. CASE 1 \notin Missing /\ 2 \in Missing  BY <1>1, <2>2
  <2>3. CASE 1 \notin Missing /\ 2 \notin Missing /\ 3 \in Missing  BY <1>1, <2>3
  <2>4. CASE 1 \notin Missing /\ 2 \notin Missing /\ 3 \notin Missing /\ 4 \in Missing  BY <1>1, <2>4
  <2>5. CASE 1 \notin Missing /\ 2 \notin Missing /\ 3 \notin Missing /\ 4 \notin Missing
    <3>1. Missing = {5}  BY <1>1, <2>5
    <3> QED  BY <3>1
  <2> QED  BY <2>1, <2>2, <2>3, <2>4, <2>5
<1>3. i \in Missing  BY <1>2
<1>4. NextPage = Pages(style)[i]  BY DEF NextPage
<1> HIDE DEF i
<1>5. i \in DOMAIN Pages(style) /\ MyWork.pages[Pages(style)[i]] = Unset  BY <1>3 DEF Missing
<1>6. NextPage \in OwnPages(style)  BY <1>4, <1>5 DEF OwnPages
<1> QED  BY <1>4, <1>5, <1>6, PagesOfStyle DEF PageNames

\* What is submitted when no page is missing.
LEMMA NothingMissing ==
    ASSUME Missing = {}, style \in {"us", "tw"}, run.gaps => style = "tw"
    PROVE  Complete(MyWork.pages)
<1> SUFFICES ASSUME NEW p \in OwnPages(style) PROVE MyWork.pages[p] # Unset \/ (style = "tw" /\ p = "catalogue")
  BY DEF Complete
<1>1. PICK i \in DOMAIN Pages(style) : p = Pages(style)[i]  BY DEF OwnPages
<1>2. i \notin Missing  OBVIOUS
<1> QED  BY <1>1, <1>2 DEF Missing

\* A submission stays good while submissions are kept and pages only added.
LEMMA StaysSubmitted ==
    ASSUME NEW d \in Days, ReleasedInv, PagesInv', style' = style, released \subseteq released',
           \A p \in PageNames : work[d].pages[p] # Unset => work'[d].pages[p] = work[d].pages[p],
           Submitted(d)
    PROVE  Submitted(d)'
<1>1. PICK u \in released : u.of = d /\ Journalled(u, d)  BY DEF Submitted
<1>2. Complete(u.pages)  BY DEF ReleasedInv, Made
<1>3. ASSUME NEW p \in PageNames
      PROVE  u.pages[p] = work'[d].pages[p] \/ (style = "tw" /\ p = "catalogue" /\ u.pages[p] = Unset)
  <2>1. CASE p \notin OwnPages(style)
    <3>1. work'[d].pages[p] = Unset  BY <2>1 DEF PagesInv, OwnOnly
    <3> QED  BY <1>1, <3>1 DEF Journalled
  <2>2. CASE p \in OwnPages(style)
    BY <1>1, <1>2, <2>2 DEF Complete, Journalled
  <2> QED  BY <2>1, <2>2
<1> QED  BY <1>1, <1>3 DEF Submitted, Journalled

\* What was made of some pages depends on the feed's style only, which no step changes.
LEMMA MadeStays == ASSUME NEW u, style' = style, Made(u) PROVE Made(u)'
<1>1. Coherent(u.pages)' /\ OwnOnly(u.pages)' /\ Complete(u.pages)'  BY DEF Made, Coherent, OwnOnly, Complete
<1>2. PICK g \in BOOLEAN : u.members = UniverseOf(u.pages, g)  BY DEF Made
<1>3. UniverseOf(u.pages, g)' = UniverseOf(u.pages, g)  BY DEF UniverseOf, Rows, Listings, Companies, Lists
<1> QED  BY <1>1, <1>2, <1>3 DEF Made

\* A step that submits nothing and fetches no page keeps the submissions and all that rests on them.
LEMMA SameJournals ==
    ASSUME RefreshInv, style' = style, released' = released,
           \A d \in Days : work'[d].pages = work[d].pages
    PROVE  ReleasedInv' /\ PagesInv' /\ \A d \in Days : Submitted(d) => Submitted(d)'
<1>1. ReleasedInv'
  <2> SUFFICES ASSUME NEW u \in released PROVE Made(u)'  BY DEF ReleasedInv
  <2> QED  BY MadeStays DEF RefreshInv, ReleasedInv
<1>2. PagesInv'  BY DEF RefreshInv, PagesInv, OwnOnly
<1> QED  BY <1>1, <1>2, StaysSubmitted DEF RefreshInv

\* The row of a journal is replaced in the function of works.
LEMMA JournalStep ==
    ASSUME work \in [Days -> RefreshWorks], run.work \in Days, NEW w \in RefreshWorks, Journal(w)
    PROVE  /\ work' \in [Days -> RefreshWorks] /\ work'[run.work] = w
           /\ \A d \in Days : d # run.work => work'[d] = work[d]
  BY DEF Journal

\* A step that submits nothing and fetches no page, with what it has to show of the round and the budget.
LEMMA QuietStep ==
    ASSUME RefreshInv, RefreshTypeOK', BudgetInv', style' = style, released' = released,
           \A d \in Days : work'[d].pages = work[d].pages,
           \A d \in Days : (work'[d].frozen \/ work'[d].st = "completed")
                              => work[d].frozen \/ work[d].st = "completed" \/ Submitted(d),
           run'.gaps => style = "tw",
           Ending' => run'.work \in Days /\ Submitted(run'.work)
    PROVE  RefreshInv'
<1>1. ReleasedInv' /\ PagesInv' /\ \A d \in Days : Submitted(d) => Submitted(d)'  BY SameJournals
<1>2. DoneInv'
  <2> SUFFICES ASSUME NEW d \in Days, work'[d].frozen \/ work'[d].st = "completed" PROVE Submitted(d)'  BY DEF DoneInv
  <2>1. Submitted(d)  BY DEF RefreshInv, DoneInv
  <2> QED  BY <1>1, <2>1
<1>3. RunInv'
  <2>1. ASSUME Ending' PROVE Submitted(run.work)'
    <3>1. PICK d \in Days : d = run'.work /\ Submitted(d)  BY <2>1
    <3>2. Submitted(d)'  BY <1>1, <3>1
    <3> QED  BY <3>1, <3>2 DEF Submitted, Journalled
  <2> QED  BY <2>1 DEF RunInv
<1> QED  BY <1>1, <1>2, <1>3 DEF RefreshInv

\* A step of the process or the world that writes no journal.
LEMMA IdleStep ==
    ASSUME RefreshInv, RefreshTypeOK', UNCHANGED <<style, work, released>>,
           run'.pc = "fetch" => run' = run,
           run'.gaps => style = "tw",
           Ending' => run'.work \in Days /\ Submitted(run'.work)
    PROVE  RefreshInv'
<1>1. BudgetInv'
  <2>1. ASSUME NEW d \in Days PROVE work'[d].calls + Reserved(d)' <= work'[d].budget
    <3>1. work[d].calls \in Nat /\ work[d].budget \in Nat /\ work[d].calls + Reserved(d) <= work[d].budget
      BY RefreshAssumption DEF RefreshInv, RefreshTypeOK, RefreshWorks, BudgetInv
    <3>2. Reserved(d) \in {0, 1} /\ Reserved(d)' \in {0, Reserved(d)}  BY DEF Reserved
    <3> QED  BY <3>1, <3>2
  <2>2. run'.pc = "fetch" => MyWork'.budget >= 1  BY DEF MyWork, RefreshInv, BudgetInv
  <2> QED  BY <2>1, <2>2 DEF BudgetInv
<1> QED  BY <1>1, QuietStep

\* The process is at rest again.
LEMMA RestStep == ASSUME RefreshInv, RefreshTypeOK', UNCHANGED <<style, work, released>>, run' = AtRest PROVE RefreshInv'
<1>1. run'.pc = "idle" /\ run'.gaps = FALSE  BY DEF AtRest
<1> QED  BY <1>1, IdleStep DEF Ending

\* The days are numbers from 1 on, and no day is the mark of what is unset.
LEMMA Unset0 == Unset \notin Days /\ 1 \in Days /\ Days \subseteq Nat
  BY RefreshAssumption DEF Unset, Days

\* A set of days that is not empty has a first one.
LEMMA FirstDay == ASSUME NEW S \in SUBSET Days, S # {} PROVE \E x \in S : \A y \in S : x <= y
<1>1. S \subseteq Nat  BY Unset0
<1> DEFINE R == OpToRel(<, Nat)
<1>2. IsWellFoundedOn(R, Nat)  BY NatLessThanWellFounded
<1>3. \A x, y \in Nat : <<y, x>> \in R <=> y < x  BY DEF OpToRel
<1> HIDE DEF R
<1>4. PICK x \in S : \A y \in S : ~ (<<y, x>> \in R)
  <2>1. \E x \in S : \A y \in S : ~ (<<y, x>> \in R)  BY <1>1, <1>2, WFMin, Zenon
  <2> QED  BY <2>1
<1>5. \A y \in S : ~ (y < x)  BY <1>1, <1>3, <1>4, Zenon
<1>6. \A y \in S : y \in Nat /\ x \in Nat  BY <1>1
<1>7. \A y \in S : x <= y  BY <1>5, <1>6
<1> QED  BY <1>7

\* The initial state.
LEMMA RefreshInitInv == RefreshInit => RefreshInv
<1> SUFFICES ASSUME RefreshInit PROVE RefreshInv  OBVIOUS
<1>1. NoWork \in RefreshWorks  BY RefreshAssumption DEF NoWork, RefreshWorks, NoPages
<1>2. AtRest \in Processes  BY DEF AtRest, Processes
<1>3. RefreshTypeOK
  BY <1>1, <1>2, Unset0, RefreshAssumption DEF RefreshInit, RefreshTypeOK, AtRest, Days
<1>4. \A d \in Days : work[d] = NoWork  BY DEF RefreshInit
<1>5. PagesInv  BY <1>4 DEF PagesInv, OwnOnly, NoWork, NoPages
<1>6. BudgetInv
  <2>1. run.pc = "idle"  BY DEF RefreshInit, AtRest
  <2>2. \A d \in Days : work[d].calls = 0 /\ work[d].budget = 0  BY <1>4 DEF NoWork
  <2>3. \A d \in Days : Reserved(d) = 0  BY <2>1 DEF Reserved
  <2> QED  BY <2>1, <2>2, <2>3 DEF BudgetInv
<1>7. DoneInv  BY <1>4 DEF DoneInv, NoWork
<1>8. RunInv  BY DEF RefreshInit, AtRest, RunInv, Ending
<1>9. ReleasedInv  BY DEF RefreshInit, ReleasedInv
<1> QED  BY <1>3, <1>5, <1>6, <1>7, <1>8, <1>9 DEF RefreshInv

\* A cycle enqueues the work of the day at most, which is then queued and has done nothing.
LEMMA BeginCycleInv == ASSUME RefreshInv, BeginCycle PROVE RefreshInv'
<1> USE Unset0
<1>1. RefreshTypeOK  BY DEF RefreshInv
<1>2. run.pc = "idle" /\ UNCHANGED <<world, nextAt, released, troubles>>  BY DEF BeginCycle
<1>3. run' \in Processes /\ run'.pc = "claim" /\ run'.work = run.work /\ run'.gaps = run.gaps
  <2>1. run' = [run EXCEPT !.pc = "claim", !.sent = @ \cup {day}] \/ run' = [run EXCEPT !.pc = "claim"]  BY DEF BeginCycle
  <2>2. run \in Processes /\ run.sent \cup {day} \in SUBSET Days  BY <1>1 DEF RefreshTypeOK, Processes
  <2>3. CASE run' = [run EXCEPT !.pc = "claim"]  BY <2>2, <2>3 DEF Processes
  <2>4. CASE run' = [run EXCEPT !.pc = "claim", !.sent = @ \cup {day}]
    <3>1. run' = [run EXCEPT !.pc = "claim", !.sent = run.sent \cup {day}]  BY <2>2, <2>4 DEF Processes
    <3> QED  BY <2>2, <3>1 DEF Processes
  <2> QED  BY <2>1, <2>3, <2>4
<1>4. work' = work \/ work' = [work EXCEPT ![day].st = IF @ = "none" THEN "queued" ELSE @]
  BY DEF BeginCycle, Enqueued
<1>5. /\ work' \in [Days -> RefreshWorks]
      /\ \A d \in Days : /\ work'[d].pages = work[d].pages /\ work'[d].frozen = work[d].frozen
                         /\ work'[d].calls = work[d].calls /\ work'[d].budget = work[d].budget
                         /\ work'[d].st = "completed" => work[d].st = "completed"
  <2>1. CASE work' = work  BY <1>1, <2>1 DEF RefreshTypeOK
  <2>2. CASE work' = [work EXCEPT ![day].st = IF @ = "none" THEN "queued" ELSE @]
    BY <1>1, <2>2 DEF RefreshTypeOK, RefreshWorks
  <2> QED  BY <1>4, <2>1, <2>2
<1>6. RefreshTypeOK'  BY <1>1, <1>2, <1>3, <1>5 DEF RefreshTypeOK, world
<1>7. BudgetInv'
  <2>1. \A d \in Days : Reserved(d)' = 0 /\ Reserved(d) = 0  BY <1>2, <1>3 DEF Reserved
  <2> QED  BY <1>3, <1>5, <2>1 DEF BudgetInv, RefreshInv
<1> QED  BY <1>2, <1>3, <1>5, <1>6, <1>7, QuietStep DEF world, Ending, RefreshInv, RunInv

\* What is claimed is a day's work: the days that wait have a first one.
LEMMA ClaimIsADay == ASSUME ClaimOrder # {} PROVE (CHOOSE x \in ClaimOrder : \A y \in ClaimOrder : x <= y) \in Days
<1>1. ClaimOrder \subseteq Days  BY DEF ClaimOrder, Recovered, Waiting
<1>2. \E x \in ClaimOrder : \A y \in ClaimOrder : x <= y  BY <1>1, FirstDay
<1> QED  BY <1>1, <1>2

\* The owner's work is recovered, or the oldest queued one claimed.
LEMMA ClaimWorkInv == ASSUME RefreshInv, ClaimWork PROVE RefreshInv'
<1> USE Unset0
<1>1. RefreshTypeOK  BY DEF RefreshInv
<1>2. run.pc = "claim" /\ UNCHANGED <<world, nextAt, released, troubles>>  BY DEF ClaimWork
<1>3. CASE ClaimOrder = {}
  <2>1. run' = [run EXCEPT !.pc = "idle"] /\ work' = work  BY <1>3 DEF ClaimWork
  <2>2. run' \in Processes /\ run'.pc = "idle" /\ run'.work = run.work /\ run'.gaps = run.gaps
    BY <1>1, <2>1 DEF RefreshTypeOK, Processes
  <2>3. RefreshTypeOK'  BY <1>1, <1>2, <2>1, <2>2 DEF RefreshTypeOK, world
  <2> QED  BY <1>2, <2>1, <2>2, <2>3, IdleStep DEF world, Ending, RefreshInv, RunInv
<1>4. CASE ClaimOrder # {}
  <2> DEFINE d == CHOOSE x \in ClaimOrder : \A y \in ClaimOrder : x <= y
  <2>1. run' = [run EXCEPT !.pc = "owned", !.work = d, !.dispatched = FALSE, !.gaps = FALSE] /\ work' = [work EXCEPT ![d].st = "owned"]
    BY <1>4 DEF ClaimWork
  <2>2. d \in Days  BY <1>4, ClaimIsADay
  <2> HIDE DEF d
  <2>3. run' \in Processes /\ run'.pc = "owned" /\ run'.work = d /\ ~ run'.gaps
    BY <1>1, <2>1, <2>2 DEF RefreshTypeOK, Processes
  <2>4. /\ work' \in [Days -> RefreshWorks]
        /\ \A e \in Days : /\ work'[e].pages = work[e].pages /\ work'[e].frozen = work[e].frozen
                           /\ work'[e].calls = work[e].calls /\ work'[e].budget = work[e].budget
                           /\ work'[e].st = "completed" => work[e].st = "completed"
    BY <1>1, <2>1, <2>2 DEF RefreshTypeOK, RefreshWorks
  <2>5. RefreshTypeOK'  BY <1>1, <1>2, <2>2, <2>3, <2>4 DEF RefreshTypeOK, world
  <2>6. BudgetInv'
    <3>1. \A e \in Days : Reserved(e)' = 0 /\ Reserved(e) = 0  BY <1>2, <2>3 DEF Reserved
    <3> QED  BY <2>3, <2>4, <3>1 DEF BudgetInv, RefreshInv
  <2> QED  BY <1>2, <2>3, <2>4, <2>5, <2>6, QuietStep DEF world, Ending
<1> QED  BY <1>3, <1>4

\* A step that decides the outcome of the round, and writes no journal.
LEMMA SettlingStep ==
    ASSUME RefreshInv, NEW o \in {"retry", "failed", "replayed"}, Settling(o), run.work \in Days,
           o = "replayed" => work[run.work].frozen,
           UNCHANGED <<world, work, nextAt, released>>, troubles' \in 0 .. MaxTroubles
    PROVE  RefreshInv'
<1> USE Unset0
<1>1. RefreshTypeOK  BY DEF RefreshInv
<1>2. /\ run' \in Processes /\ run'.pc = "close" /\ run'.work = run.work /\ run'.gaps = run.gaps
      /\ run'.outcome = o
  BY <1>1 DEF Settling, RefreshTypeOK, Processes
<1>3. RefreshTypeOK'  BY <1>1, <1>2 DEF RefreshTypeOK, world
<1>4. Ending' => Submitted(run.work)  BY <1>2 DEF Ending, RefreshInv, DoneInv
<1> QED  BY <1>2, <1>3, <1>4, IdleStep DEF world, RefreshInv, RunInv

\* A process at work has a work.
LEMMA HasWork == ASSUME RefreshTypeOK, run.pc \notin {"idle", "claim"} PROVE run.work \in Days
  BY Unset0 DEF RefreshTypeOK, Processes

\* A retired feed is left for review.
LEMMA SettleRetiredInv == ASSUME RefreshInv, SettleRetired PROVE RefreshInv'
<1>1. run.work \in Days /\ troubles' \in 0 .. MaxTroubles  BY HasWork DEF SettleRetired, RefreshInv, RefreshTypeOK
<1> QED  BY <1>1, SettlingStep DEF SettleRetired

\* A closed round is completed by its manifest only if it was frozen.
LEMMA ReplayClosedInv == ASSUME RefreshInv, ReplayClosed PROVE RefreshInv'
<1>1. run.work \in Days /\ troubles' \in 0 .. MaxTroubles  BY HasWork DEF ReplayClosed, RefreshInv, RefreshTypeOK
<1>2. Settling(ReplayOutcome(MyWork)) /\ UNCHANGED <<world, work, nextAt, released>>  BY DEF ReplayClosed
<1>3. CASE MyWork.frozen  BY <1>1, <1>2, <1>3, SettlingStep DEF ReplayOutcome, MyWork
<1>4. CASE ~ MyWork.frozen  BY <1>1, <1>2, <1>4, SettlingStep DEF ReplayOutcome
<1> QED  BY <1>3, <1>4

\* A row of a journal, its attempt given back or its call counted.
LEMMA RowAfter ==
    ASSUME RefreshInv, run.pc = "fetch"
    PROVE  /\ Released(MyWork) \in RefreshWorks /\ Called(MyWork) \in RefreshWorks /\ MyWork \in RefreshWorks
           /\ \A w \in {Released(MyWork), Called(MyWork)} :
                 /\ w.pages = MyWork.pages /\ w.frozen = MyWork.frozen /\ w.st = MyWork.st
                 /\ w.calls <= w.budget
           /\ Called(MyWork).budget = MyWork.budget
<1>1. run.work \in Days  BY HasWork DEF RefreshInv
<1>2. MyWork \in RefreshWorks  BY <1>1 DEF RefreshInv, RefreshTypeOK, MyWork
<1>3. MyWork.budget \in 1 .. MaxAttempts /\ MyWork.calls \in Nat
  <2>1. MyWork.budget >= 1  BY DEF RefreshInv, BudgetInv
  <2> QED  BY <1>2, <2>1, RefreshAssumption DEF RefreshWorks
<1>4. MyWork.calls + (IF run.dispatched THEN 0 ELSE 1) <= MyWork.budget
  <2>1. MyWork.calls + Reserved(run.work) <= MyWork.budget  BY <1>1 DEF RefreshInv, BudgetInv, MyWork
  <2> QED  BY <2>1 DEF Reserved
<1>5. CASE run.dispatched  BY <1>2, <1>3, <1>4, <1>5 DEF Released, Called
<1>6. CASE ~ run.dispatched
  <2>1. Released(MyWork) = [MyWork EXCEPT !.budget = MyWork.budget - 1] /\ Called(MyWork) = [MyWork EXCEPT !.calls = MyWork.calls + 1]
    BY <1>6, <1>2 DEF Released, Called, RefreshWorks
  <2>2. MyWork.budget - 1 \in 0 .. MaxAttempts /\ MyWork.calls + 1 \in Nat  BY <1>3, RefreshAssumption
  <2>3. /\ Released(MyWork) \in RefreshWorks /\ Called(MyWork) \in RefreshWorks
        /\ \A w \in {Released(MyWork), Called(MyWork)} :
              w.pages = MyWork.pages /\ w.frozen = MyWork.frozen /\ w.st = MyWork.st
        /\ Released(MyWork).budget = MyWork.budget - 1 /\ Released(MyWork).calls = MyWork.calls
        /\ Called(MyWork).budget = MyWork.budget /\ Called(MyWork).calls = MyWork.calls + 1
    BY <1>2, <2>1, <2>2 DEF RefreshWorks
  <2>4. \A w \in {Released(MyWork), Called(MyWork)} : w.calls <= w.budget
    BY <1>3, <1>4, <1>6, <2>3
  <2> QED  BY <1>2, <2>3, <2>4
<1> QED  BY <1>5, <1>6

\* A step of a fetching process that gives its attempt back or counts its call, and goes on with the given process.
LEMMA AttemptStep ==
    ASSUME RefreshInv, run.pc = "fetch", NEW w \in {Released(MyWork), Called(MyWork)}, Journal(w),
           NEW r \in Processes, run' = r,
           (r.pc \in {"idle", "claim"}) = (r.work = Unset),
           \/ r.pc = "close" /\ r.outcome \in {"retry", "failed"}
           \/ r.pc = "idle"
           \/ r.pc = "fetch" /\ r.dispatched /\ r.work = run.work /\ w = Called(MyWork),
           r.gaps => style = "tw",
           UNCHANGED <<world, nextAt, released>>, troubles' \in 0 .. MaxTroubles
    PROVE  RefreshInv'
<1>1. run.work \in Days /\ RefreshTypeOK  BY HasWork DEF RefreshInv
<1>2. /\ w \in RefreshWorks /\ w.pages = MyWork.pages /\ w.frozen = MyWork.frozen /\ w.st = MyWork.st
      /\ w.calls <= w.budget /\ Called(MyWork).budget = MyWork.budget
  BY RowAfter
<1>3. /\ work' \in [Days -> RefreshWorks] /\ work'[run.work] = w
      /\ \A d \in Days : d # run.work => work'[d] = work[d]
  BY <1>1, <1>2, JournalStep DEF RefreshTypeOK
<1>4. RefreshTypeOK'  BY <1>1, <1>3 DEF RefreshTypeOK, world
<1>5. \A d \in Days : work'[d].pages = work[d].pages /\ work'[d].frozen = work[d].frozen /\ work'[d].st = work[d].st
  BY <1>2, <1>3 DEF MyWork
<1>6. BudgetInv'
  <2>1. ASSUME NEW d \in Days PROVE work'[d].calls + Reserved(d)' <= work'[d].budget
    <3>1. Reserved(d)' = 0  BY DEF Reserved
    <3>2. work'[d].calls <= work'[d].budget
      <4>1. CASE d = run.work  BY <1>2, <1>3, <4>1
      <4>2. CASE d # run.work
        <5>1. work[d].calls + Reserved(d) <= work[d].budget  BY DEF RefreshInv, BudgetInv
        <5>2. Reserved(d) = 0  BY <4>2 DEF Reserved
        <5>3. work[d].calls \in Nat  BY <1>1 DEF RefreshTypeOK, RefreshWorks
        <5> QED  BY <1>3, <4>2, <5>1, <5>2, <5>3
      <4> QED  BY <4>1, <4>2
    <3>3. work'[d].calls \in Nat  BY <1>3 DEF RefreshWorks
    <3> QED  BY <3>1, <3>2, <3>3
  <2>2. run'.pc = "fetch" => MyWork'.budget >= 1
    BY <1>2, <1>3 DEF RefreshInv, BudgetInv, MyWork
  <2> QED  BY <2>1, <2>2 DEF BudgetInv
<1>7. ~ Ending'  BY DEF Ending
<1> QED  BY <1>4, <1>5, <1>6, <1>7, QuietStep DEF world

\* The process that settles its round with this outcome.
LEMMA SettlingProcess ==
    ASSUME RefreshInv, run.pc = "fetch", NEW o \in {"retry", "failed"}, Settling(o)
    PROVE  /\ run' \in Processes /\ (run'.pc \in {"idle", "claim"}) = (run'.work = Unset)
           /\ run'.pc = "close" /\ run'.outcome = o /\ (run'.gaps => style = "tw")
<1>1. run \in Processes /\ run.work \in Days /\ (run.gaps => style = "tw")  BY HasWork DEF RefreshInv, RefreshTypeOK, RunInv
<1>2. run' \in Processes /\ run'.pc = "close" /\ run'.outcome = o /\ run'.gaps = run.gaps /\ run'.work = run.work
  BY <1>1 DEF Settling, Processes
<1> QED  BY <1>1, <1>2, Unset0

\* The Source forbids the acquisition: the attempt is given back.
LEMMA FetchStoppedInv == ASSUME RefreshInv, FetchStopped PROVE RefreshInv'
<1>1. troubles' \in 0 .. MaxTroubles  BY DEF FetchStopped, RefreshInv, RefreshTypeOK
<1>2. run.pc = "fetch" /\ Journal(Released(MyWork)) /\ Settling("retry") /\ UNCHANGED <<world, nextAt, released>>
  BY DEF FetchStopped
<1> QED  BY <1>1, <1>2, SettlingProcess, AttemptStep

\* The count of troubles stays in its bound.
LEMMA TroubleType == ASSUME RefreshTypeOK, Trouble PROVE troubles' \in 0 .. MaxTroubles
  BY RefreshAssumption DEF RefreshTypeOK, Trouble

\* A wait for quota reached no provider: the attempt is given back.
LEMMA FetchWaitsInv == ASSUME RefreshInv, FetchWaits PROVE RefreshInv'
<1>1. troubles' \in 0 .. MaxTroubles  BY TroubleType DEF FetchWaits, RefreshInv
<1>2. run.pc = "fetch" /\ Journal(Released(MyWork)) /\ Settling("retry") /\ UNCHANGED <<world, nextAt, released>>
  BY DEF FetchWaits
<1> QED  BY <1>1, <1>2, SettlingProcess, AttemptStep

\* A failing call counts; a catalogue that cannot be read leaves gaps.
LEMMA FetchFailsInv == ASSUME RefreshInv, FetchFails PROVE RefreshInv'
<1>1. troubles' \in 0 .. MaxTroubles  BY TroubleType DEF FetchFails, RefreshInv
<1>2. run.pc = "fetch" /\ Journal(Called(MyWork)) /\ UNCHANGED <<world, nextAt, released>>  BY DEF FetchFails
<1>3. CASE \E retryable \in BOOLEAN : Settling(IF retryable THEN "retry" ELSE "failed")
  <2>1. PICK o \in {"retry", "failed"} : Settling(o)  BY <1>3
  <2> QED  BY <1>1, <1>2, <2>1, SettlingProcess, AttemptStep
<1>4. CASE style = "tw" /\ run' = [run EXCEPT !.gaps = TRUE, !.dispatched = TRUE]
  <2>1. run \in Processes /\ run.work \in Days  BY <1>2, HasWork DEF RefreshInv, RefreshTypeOK
  <2>2. run' \in Processes /\ run'.pc = "fetch" /\ run'.dispatched /\ run'.work = run.work  BY <1>2, <1>4, <2>1 DEF Processes
  <2>3. (run'.pc \in {"idle", "claim"}) = (run'.work = Unset)  BY <2>1, <2>2, Unset0
  <2> QED  BY <1>1, <1>2, <1>4, <2>2, <2>3, AttemptStep
<1> QED  BY <1>3, <1>4 DEF FetchFails

\* The Source is out of reach: the attempt is given back, the process ends.
LEMMA FetchCutOffInv == ASSUME RefreshInv, FetchCutOff PROVE RefreshInv'
<1>1. troubles' \in 0 .. MaxTroubles  BY TroubleType DEF FetchCutOff, RefreshInv
<1>2. run.pc = "fetch" /\ Journal(Released(MyWork)) /\ run' = AtRest /\ UNCHANGED <<world, nextAt, released>>
  BY DEF FetchCutOff
<1>3. AtRest \in Processes /\ AtRest.pc = "idle" /\ AtRest.work = Unset /\ AtRest.gaps = FALSE  BY DEF AtRest, Processes
<1> QED  BY <1>1, <1>2, <1>3, AttemptStep

\* An attempt is reserved in the journal before the provider is reached.
LEMMA ReserveRefreshInv == ASSUME RefreshInv, ReserveRefresh PROVE RefreshInv'
<1>1. run.pc = "owned" /\ UNCHANGED <<world, nextAt, released, troubles>>  BY DEF ReserveRefresh
<1>2. RefreshTypeOK /\ run.work \in Days  BY <1>1, HasWork DEF RefreshInv
<1>3. CASE Spent
  <2>1. Settling("failed") /\ UNCHANGED work  BY <1>3 DEF ReserveRefresh
  <2>2. troubles' \in 0 .. MaxTroubles  BY <1>1, <1>2 DEF RefreshTypeOK
  <2> QED  BY <1>1, <1>2, <2>1, <2>2, SettlingStep
<1>4. CASE ~ Spent
  <2>1. run' = [run EXCEPT !.pc = "fetch"] /\ Journal([MyWork EXCEPT !.budget = @ + 1])  BY <1>4 DEF ReserveRefresh
  <2> DEFINE w == [MyWork EXCEPT !.budget = MyWork.budget + 1]
  <2>2. MyWork \in RefreshWorks  BY <1>2 DEF RefreshTypeOK, MyWork
  <2>3. MyWork.budget \in 0 .. MaxAttempts /\ MyWork.calls \in Nat  BY <2>2 DEF RefreshWorks
  <2>4. MyWork.budget + 1 \in 0 .. MaxAttempts  BY <1>4, <2>3, RefreshAssumption DEF Spent
  <2>5. /\ w \in RefreshWorks /\ w.budget = MyWork.budget + 1 /\ w.calls = MyWork.calls
        /\ w.pages = MyWork.pages /\ w.frozen = MyWork.frozen /\ w.st = MyWork.st
    BY <2>2, <2>4 DEF RefreshWorks
  <2>6. Journal(w)  BY <2>1, <2>2 DEF RefreshWorks
  <2> HIDE DEF w
  <2>7. /\ work' \in [Days -> RefreshWorks] /\ work'[run.work] = w
        /\ \A d \in Days : d # run.work => work'[d] = work[d]
    BY <1>2, <2>5, <2>6, JournalStep DEF RefreshTypeOK
  <2>8. run' \in Processes /\ run'.pc = "fetch" /\ run'.work = run.work /\ run'.gaps = run.gaps
    BY <1>2, <2>1 DEF RefreshTypeOK, Processes
  <2>9. RefreshTypeOK'  BY <1>1, <1>2, <2>7, <2>8, Unset0 DEF RefreshTypeOK, world
  <2>10. BudgetInv'
    <3>1. ASSUME NEW d \in Days PROVE work'[d].calls + Reserved(d)' <= work'[d].budget
      <4>1. Reserved(d)' \in {0, 1} /\ (d # run.work => Reserved(d)' = 0)  BY <2>8 DEF Reserved
      <4>2. work[d].calls <= work[d].budget /\ work[d].calls \in Nat /\ work[d].budget \in Nat
        <5>1. Reserved(d) = 0  BY <1>1 DEF Reserved
        <5>2. work[d].calls \in Nat /\ work[d].budget \in 0 .. MaxAttempts  BY <1>2 DEF RefreshTypeOK, RefreshWorks
        <5> QED  BY <5>1, <5>2, RefreshAssumption DEF RefreshInv, BudgetInv
      <4>3. CASE d = run.work  BY <2>5, <2>7, <4>1, <4>2, <4>3 DEF MyWork
      <4>4. CASE d # run.work  BY <2>7, <4>1, <4>2, <4>4
      <4> QED  BY <4>3, <4>4
    <3>2. MyWork'.budget >= 1  BY <2>3, <2>5, <2>7, <2>8 DEF MyWork
    <3> QED  BY <3>1, <3>2 DEF BudgetInv
  <2>11. \A d \in Days : work'[d].pages = work[d].pages /\ work'[d].frozen = work[d].frozen /\ work'[d].st = work[d].st
    BY <2>5, <2>7 DEF MyWork
  <2> QED  BY <1>1, <2>8, <2>9, <2>10, <2>11, QuietStep DEF world, Ending, RefreshInv, RunInv
<1> QED  BY <1>3, <1>4

\* A fetched page fills a place of the journal that was empty.
LEMMA FetchPageInv == ASSUME RefreshInv, FetchPage PROVE RefreshInv'
<1>1. run.pc = "fetch" /\ Missing # {} /\ UNCHANGED <<world, nextAt, released, troubles>> /\ run' = [run EXCEPT !.dispatched = TRUE]
  BY DEF FetchPage
<1>2. RefreshTypeOK /\ run.work \in Days /\ style \in {"us", "tw"}
  BY <1>1, HasWork, RefreshAssumption DEF RefreshInv, RefreshTypeOK
<1>3. NextPage \in OwnPages(style) /\ NextPage \in PageNames /\ MyWork.pages[NextPage] = Unset
  BY <1>1, <1>2, NextPageIsMissing
<1>4. /\ Called(MyWork) \in RefreshWorks /\ Called(MyWork).pages = MyWork.pages /\ Called(MyWork).frozen = MyWork.frozen
      /\ Called(MyWork).st = MyWork.st /\ Called(MyWork).calls <= Called(MyWork).budget
      /\ Called(MyWork).budget = MyWork.budget /\ MyWork \in RefreshWorks
  BY <1>1, RowAfter
<1>0. PICK edition \in Published(NextPage) :
          Journal([Called(MyWork) EXCEPT !.pages = [MyWork.pages EXCEPT ![NextPage] = edition]])
  BY DEF FetchPage
<1> DEFINE pages == [MyWork.pages EXCEPT ![NextPage] = edition]
           w == [Called(MyWork) EXCEPT !.pages = pages]
<1>5. Journal(w) /\ edition \in Days  BY <1>0 DEF Published
<1>6. pages \in PageSets  BY <1>2, <1>3, <1>4, <1>5 DEF RefreshTypeOK, RefreshWorks, PageSets
<1>7. \A p \in PageNames : (MyWork.pages[p] # Unset \/ p \notin OwnPages(style)) => pages[p] = MyWork.pages[p]
  BY <1>3, <1>4 DEF RefreshWorks
<1> HIDE DEF pages
<1>8. /\ w \in RefreshWorks /\ w.pages = pages /\ w.frozen = MyWork.frozen /\ w.st = MyWork.st
      /\ w.calls <= w.budget /\ w.budget = MyWork.budget
  BY <1>4, <1>6 DEF RefreshWorks, PageSets
<1> HIDE DEF w
<1>9. /\ work' \in [Days -> RefreshWorks] /\ work'[run.work] = w
      /\ \A d \in Days : d # run.work => work'[d] = work[d]
  BY <1>2, <1>5, <1>8, JournalStep DEF RefreshTypeOK
<1>10. run' \in Processes /\ run'.pc = "fetch" /\ run'.dispatched /\ run'.work = run.work /\ run'.gaps = run.gaps
  BY <1>1, <1>2 DEF RefreshTypeOK, Processes
<1>11. RefreshTypeOK'  BY <1>1, <1>2, <1>9, <1>10, Unset0 DEF RefreshTypeOK, world
<1>12. style' = style /\ released' = released  BY <1>1 DEF world
<1>13. ReleasedInv'
  <2> SUFFICES ASSUME NEW u \in released PROVE Made(u)'  BY <1>12 DEF ReleasedInv
  <2> QED  BY <1>12, MadeStays DEF RefreshInv, ReleasedInv
<1>14. \A d \in Days : \A p \in PageNames :
          (work[d].pages[p] # Unset \/ p \notin OwnPages(style)) => work'[d].pages[p] = work[d].pages[p]
  BY <1>7, <1>8, <1>9 DEF MyWork
<1>15. PagesInv'  BY <1>12, <1>14 DEF RefreshInv, PagesInv, OwnOnly
<1>16. BudgetInv'
  <2>1. ASSUME NEW d \in Days PROVE work'[d].calls + Reserved(d)' <= work'[d].budget
    <3>1. Reserved(d)' = 0  BY <1>10 DEF Reserved
    <3>2. work'[d].calls \in Nat  BY <1>9 DEF RefreshWorks
    <3>3. CASE d = run.work  BY <1>8, <1>9, <3>1, <3>2, <3>3
    <3>4. CASE d # run.work
      <4>1. Reserved(d) = 0  BY <3>4 DEF Reserved
      <4> QED  BY <1>9, <3>1, <3>4, <4>1 DEF RefreshInv, BudgetInv
    <3> QED  BY <3>3, <3>4
  <2>2. MyWork'.budget >= 1  BY <1>1, <1>8, <1>9, <1>10 DEF RefreshInv, BudgetInv, MyWork
  <2> QED  BY <2>1, <2>2 DEF BudgetInv
<1>17. DoneInv'
  <2> SUFFICES ASSUME NEW d \in Days, work'[d].frozen \/ work'[d].st = "completed" PROVE Submitted(d)'  BY DEF DoneInv
  <2>1. work[d].frozen \/ work[d].st = "completed"  BY <1>8, <1>9 DEF MyWork
  <2>2. Submitted(d)  BY <2>1 DEF RefreshInv, DoneInv
  <2> QED  BY <1>12, <1>14, <1>15, <2>2, StaysSubmitted DEF RefreshInv
<1>18. RunInv'  BY <1>10, <1>12 DEF RunInv, Ending, RefreshInv
<1> QED  BY <1>11, <1>13, <1>15, <1>16, <1>17, <1>18 DEF RefreshInv

\* What the Source takes was made of the journal's pages: all of them there, Nasdaq's of one date.
LEMMA SubmissionIsMade ==
    ASSUME RefreshInv, run.pc = "fetch", Missing = {}, Coherent(MyWork.pages), ~ Duplicated(Submission.members)
    PROVE  Made(Submission) /\ Submission.of = run.work /\ Journalled(Submission, run.work)
<1>1. run.work \in Days /\ style \in {"us", "tw"} /\ work[run.work] \in RefreshWorks
  BY HasWork, RefreshAssumption DEF RefreshInv, RefreshTypeOK
<1>2. MyWork.pages \in PageSets  BY <1>1 DEF MyWork, RefreshWorks, PageSets
<1>3. OwnOnly(MyWork.pages)  BY <1>1 DEF RefreshInv, PagesInv, MyWork
<1>4. Complete(MyWork.pages)  BY <1>1, NothingMissing DEF RefreshInv, RunInv
<1>5. run.gaps \in BOOLEAN  BY DEF RefreshInv, RefreshTypeOK, Processes
<1>6. Submission.of = run.work /\ Submission.pages = MyWork.pages /\ Submission.members = UniverseOf(MyWork.pages, run.gaps)
  BY DEF Submission
<1>7. Made(Submission)  BY <1>1, <1>2, <1>3, <1>4, <1>5, <1>6 DEF Made
<1>8. Journalled(Submission, run.work)  BY <1>6 DEF Journalled, MyWork
<1> QED  BY <1>6, <1>7, <1>8

\* A universe is submitted, or the answer of its submission lost; either way what the process ends with is true.
LEMMA SubmitInv == ASSUME RefreshInv, Submit PROVE RefreshInv'
<1>1. run.pc = "fetch" /\ Missing = {} /\ UNCHANGED <<world, work, nextAt>>  BY DEF Submit
<1>2. RefreshTypeOK /\ run.work \in Days /\ run \in Processes  BY <1>1, HasWork DEF RefreshInv, RefreshTypeOK
<1>3. CASE ~ Coherent(MyWork.pages)
  <2>1. Settling("failed") /\ UNCHANGED <<released, troubles>>  BY <1>3 DEF Submit
  <2>2. troubles' \in 0 .. MaxTroubles  BY <1>2, <2>1 DEF RefreshTypeOK
  <2> QED  BY <1>1, <1>2, <2>1, <2>2, SettlingStep
<1>4. CASE Coherent(MyWork.pages)
  <2>1. ~ Duplicated(Submission.members)
           => Made(Submission) /\ Submission.of = run.work /\ Journalled(Submission, run.work)
    BY <1>1, <1>4, SubmissionIsMade
  <2>2. /\ released' \in {released, Entered}
        /\ \/ /\ released' = Entered /\ ~ Duplicated(Submission.members)
              /\ run' = [run EXCEPT !.pc = "freeze"] /\ troubles' = troubles
           \/ (Trouble \/ troubles' = troubles) /\ \E o \in {"retry", "failed"} : Settling(o)
    BY <1>4 DEF Submit
  <2>3. troubles' \in 0 .. MaxTroubles  BY <1>2, <2>2, TroubleType DEF RefreshTypeOK
  <2>4. /\ released \subseteq released'
        /\ \A u \in released' : u \in released \/ (u = Submission /\ ~ Duplicated(Submission.members))
    BY <2>2 DEF Entered
  <2>5. /\ run' \in Processes /\ run'.work = run.work /\ run'.gaps = run.gaps
        /\ \/ run'.pc = "freeze" /\ Submission \in released' /\ ~ Duplicated(Submission.members)
           \/ run'.pc = "close" /\ run'.outcome \in {"retry", "failed"}
    <3>1. CASE /\ released' = Entered /\ ~ Duplicated(Submission.members)
               /\ run' = [run EXCEPT !.pc = "freeze"]
      <4>1. Submission \in released'  BY <3>1 DEF Entered
      <4> QED  BY <1>2, <3>1, <4>1 DEF Processes
    <3>2. CASE \E o \in {"retry", "failed"} : Settling(o)
      BY <1>2, <3>2 DEF Processes, Settling
    <3> QED  BY <2>2, <3>1, <3>2
  <2>6. RefreshTypeOK'  BY <1>1, <1>2, <2>3, <2>5, Unset0 DEF RefreshTypeOK, world
  <2>7. style' = style /\ work' = work /\ released \subseteq released'  BY <1>1, <2>4 DEF world
  <2>8. ReleasedInv'
    <3> SUFFICES ASSUME NEW u \in released' PROVE Made(u)'  BY DEF ReleasedInv
    <3>1. Made(u)  BY <2>1, <2>4 DEF RefreshInv, ReleasedInv
    <3> QED  BY <2>7, <3>1, MadeStays
  <2>9. PagesInv'  BY <2>7 DEF RefreshInv, PagesInv, OwnOnly
  <2>10. \A d \in Days : Submitted(d) => Submitted(d)'  BY <2>7 DEF Submitted, Journalled
  <2>11. DoneInv'  BY <2>7, <2>10 DEF RefreshInv, DoneInv
  <2>12. RunInv'
    <3>1. ASSUME Ending' PROVE Submitted(run.work)'
      <4>1. run'.pc = "freeze" /\ Submission \in released' /\ ~ Duplicated(Submission.members)  BY <2>5, <3>1 DEF Ending
      <4>2. \E u \in released' : u.of = run'.work /\ Journalled(u, run.work)  BY <2>1, <2>5, <4>1
      <4> QED  BY <2>5, <2>7, <4>2 DEF Submitted, Journalled
    <3>2. run'.gaps => style' = "tw"  BY <2>5, <2>7 DEF RefreshInv, RunInv
    <3> QED  BY <3>1, <3>2 DEF RunInv
  <2>13. BudgetInv'
    <3>1. \A d \in Days : Reserved(d)' = 0  BY <2>5 DEF Reserved
    <3>2. \A d \in Days : Reserved(d) \in {0, 1} /\ work[d].calls \in Nat /\ work[d].budget \in Nat
      BY <1>2, RefreshAssumption DEF Reserved, RefreshTypeOK, RefreshWorks
    <3> QED  BY <2>5, <2>7, <3>1, <3>2 DEF RefreshInv, BudgetInv
  <2> QED  BY <2>6, <2>8, <2>9, <2>11, <2>12, <2>13 DEF RefreshInv
<1> QED  BY <1>3, <1>4

\* A step outside of fetching that writes the journal of its work: what it marks as frozen or completed was submitted.
LEMMA MarkStep ==
    ASSUME RefreshInv, run.pc \in {"freeze", "close", "settle"}, NEW w \in RefreshWorks, Journal(w),
           w.pages = MyWork.pages /\ w.calls = MyWork.calls /\ w.budget = MyWork.budget,
           (w.frozen \/ w.st = "completed") => MyWork.frozen \/ MyWork.st = "completed" \/ Submitted(run.work),
           run' \in Processes, (run'.pc \in {"idle", "claim"}) = (run'.work = Unset),
           run'.pc # "fetch", run'.gaps => style = "tw",
           Ending' => run'.work = run.work /\ Submitted(run.work),
           UNCHANGED <<world, nextAt, released>>, troubles' \in 0 .. MaxTroubles
    PROVE  RefreshInv'
<1>1. RefreshTypeOK /\ run.work \in Days  BY HasWork DEF RefreshInv
<1>2. /\ work' \in [Days -> RefreshWorks] /\ work'[run.work] = w
      /\ \A d \in Days : d # run.work => work'[d] = work[d]
  BY <1>1, JournalStep DEF RefreshTypeOK
<1>3. RefreshTypeOK'  BY <1>1, <1>2 DEF RefreshTypeOK, world
<1>4. \A d \in Days : /\ work'[d].pages = work[d].pages /\ work'[d].calls = work[d].calls /\ work'[d].budget = work[d].budget
                      /\ (work'[d].frozen \/ work'[d].st = "completed")
                            => work[d].frozen \/ work[d].st = "completed" \/ Submitted(d)
  BY <1>2 DEF MyWork
<1>5. BudgetInv'
  <2>1. \A d \in Days : Reserved(d)' = 0 /\ Reserved(d) = 0  BY DEF Reserved
  <2> QED  BY <1>4, <2>1 DEF RefreshInv, BudgetInv
<1> QED  BY <1>1, <1>3, <1>4, <1>5, QuietStep DEF world

\* The manifest is frozen after the submission.
LEMMA FreezeRefreshInv == ASSUME RefreshInv, FreezeRefresh PROVE RefreshInv'
<1>1. run.pc = "freeze" /\ UNCHANGED <<world, nextAt, released>>  BY DEF FreezeRefresh
<1>2. RefreshTypeOK /\ run.work \in Days /\ run \in Processes /\ MyWork \in RefreshWorks
  BY <1>1, HasWork DEF RefreshInv, RefreshTypeOK, MyWork
<1>3. Submitted(run.work)  BY <1>1 DEF RefreshInv, RunInv, Ending
<1>4. \E f \in BOOLEAN, o \in {"completed", "retry"} :
        /\ Journal([MyWork EXCEPT !.kept = TRUE, !.frozen = f]) /\ Settling(o) /\ (troubles' = troubles \/ Trouble)
  <2>1. CASE Journal([MyWork EXCEPT !.kept = TRUE, !.frozen = TRUE]) /\ Settling("completed") /\ troubles' = troubles
    BY <2>1
  <2>2. CASE /\ Trouble /\ Settling("retry")
             /\ \E received \in BOOLEAN : Journal([MyWork EXCEPT !.kept = TRUE, !.frozen = @ \/ received])
    <3>1. PICK received \in BOOLEAN : Journal([MyWork EXCEPT !.kept = TRUE, !.frozen = @ \/ received])  BY <2>2
    <3>2. [MyWork EXCEPT !.kept = TRUE, !.frozen = @ \/ received] = [MyWork EXCEPT !.kept = TRUE, !.frozen = (MyWork.frozen \/ received)]
      BY <1>2 DEF RefreshWorks
    <3>3. Journal([MyWork EXCEPT !.kept = TRUE, !.frozen = (MyWork.frozen \/ received)])  BY <3>1, <3>2
    <3>4. (MyWork.frozen \/ received) \in BOOLEAN  OBVIOUS
    <3> QED  BY <2>2, <3>3, <3>4
  <2> QED  BY <2>1, <2>2 DEF FreezeRefresh
<1>5. PICK f \in BOOLEAN, o \in {"completed", "retry"} :
        /\ Journal([MyWork EXCEPT !.kept = TRUE, !.frozen = f]) /\ Settling(o) /\ (troubles' = troubles \/ Trouble)
  BY <1>4
<1> DEFINE w == [MyWork EXCEPT !.kept = TRUE, !.frozen = f]
<1>6. w \in RefreshWorks /\ w.pages = MyWork.pages /\ w.calls = MyWork.calls /\ w.budget = MyWork.budget
  BY <1>2 DEF RefreshWorks
<1>7. Journal(w)  BY <1>5
<1> HIDE DEF w
<1>8. run' \in Processes /\ run'.pc = "close" /\ run'.work = run.work /\ run'.gaps = run.gaps
  BY <1>2, <1>5 DEF Settling, Processes
<1>9. troubles' \in 0 .. MaxTroubles  BY <1>2, <1>5, TroubleType DEF RefreshTypeOK
<1>10. (run'.pc \in {"idle", "claim"}) = (run'.work = Unset)  BY <1>2, <1>8, Unset0
<1> QED  BY <1>1, <1>3, <1>6, <1>7, <1>8, <1>9, <1>10, MarkStep DEF RefreshInv, RunInv

\* The round is closed, with the outcome that was decided.
LEMMA CloseRoundInv == ASSUME RefreshInv, CloseRound PROVE RefreshInv'
<1>1. /\ run.pc = "close" /\ UNCHANGED <<world, nextAt, released, troubles>> /\ run' = [run EXCEPT !.pc = "settle"]
      /\ Journal([MyWork EXCEPT !.closed = TRUE])
  BY DEF CloseRound
<1>2. RefreshTypeOK /\ run.work \in Days /\ run \in Processes /\ MyWork \in RefreshWorks
  BY <1>1, HasWork DEF RefreshInv, RefreshTypeOK, MyWork
<1> DEFINE w == [MyWork EXCEPT !.closed = TRUE]
<1>3. /\ w \in RefreshWorks /\ w.pages = MyWork.pages /\ w.calls = MyWork.calls /\ w.budget = MyWork.budget
      /\ w.frozen = MyWork.frozen /\ w.st = MyWork.st
  BY <1>2 DEF RefreshWorks
<1>4. Journal(w)  BY <1>1
<1> HIDE DEF w
<1>5. run' \in Processes /\ run'.pc = "settle" /\ run'.work = run.work /\ run'.gaps = run.gaps /\ run'.outcome = run.outcome
  BY <1>1, <1>2 DEF Processes
<1>6. troubles' \in 0 .. MaxTroubles  BY <1>1, <1>2 DEF RefreshTypeOK
<1>7. (run'.pc \in {"idle", "claim"}) = (run'.work = Unset)  BY <1>2, <1>5, Unset0
<1>8. Ending' => run'.work = run.work /\ Submitted(run.work)  BY <1>1, <1>5 DEF Ending, RefreshInv, RunInv
<1>9. run'.gaps => style = "tw"  BY <1>5 DEF RefreshInv, RunInv
<1> QED  BY <1>1, <1>3, <1>4, <1>5, <1>6, <1>7, <1>8, <1>9, MarkStep

\* A round that is settled as completed had submitted its universe.
LEMMA SettleRoundInv == ASSUME RefreshInv, SettleRound PROVE RefreshInv'
<1>1. run.pc = "settle" /\ UNCHANGED <<world, nextAt, released, troubles>>  BY DEF SettleRound
<1>2. RefreshTypeOK /\ run.work \in Days /\ run \in Processes /\ MyWork \in RefreshWorks
  BY <1>1, HasWork DEF RefreshInv, RefreshTypeOK, MyWork
<1> DEFINE s == SettledState(run.outcome)
           c == run.outcome # "retry"
           w == [MyWork EXCEPT !.st = s, !.closed = c]
<1>3. s \in {"completed", "failed", "queued"} /\ (s = "completed" => run.outcome \in {"completed", "replayed"})
  BY DEF SettledState
<1>4. c \in BOOLEAN  OBVIOUS
<1>5. Journal(w)  BY DEF SettleRound
<1> HIDE DEF s, c
<1>6. /\ w \in RefreshWorks /\ w.pages = MyWork.pages /\ w.calls = MyWork.calls /\ w.budget = MyWork.budget
      /\ w.frozen = MyWork.frozen /\ w.st = s
  BY <1>2, <1>3, <1>4 DEF RefreshWorks
<1> HIDE DEF w
<1>7. w.st = "completed" => Submitted(run.work)  BY <1>1, <1>3, <1>6 DEF RefreshInv, RunInv, Ending
<1>8. /\ run' \in Processes /\ run'.gaps = FALSE /\ run'.pc \in {"refresh", "idle"}
      /\ (run'.pc = "refresh" => run'.work \in Days) /\ (run'.pc = "idle" => run'.work = Unset)
  <2>1. CASE run' = [AtRest EXCEPT !.pc = "refresh", !.work = run.work, !.sent = run.sent]
    BY <1>2, <2>1 DEF AtRest, Processes
  <2>2. CASE run' = [AtRest EXCEPT !.sent = run.sent]
    BY <1>2, <2>2 DEF AtRest, Processes
  <2> QED  BY <2>1, <2>2 DEF SettleRound
<1>9. troubles' \in 0 .. MaxTroubles  BY <1>1, <1>2 DEF RefreshTypeOK
<1>10. (run'.pc \in {"idle", "claim"}) = (run'.work = Unset)  BY <1>8, Unset0
<1>11. ~ Ending' /\ run'.pc # "fetch"  BY <1>8 DEF Ending
<1> QED  BY <1>1, <1>5, <1>6, <1>7, <1>8, <1>9, <1>10, <1>11, MarkStep

\* The next refresh is a day away.
LEMMA RecordRefreshInv == ASSUME RefreshInv, RecordRefresh PROVE RefreshInv'
<1>1. /\ run.pc = "refresh" /\ nextAt' = day + 1 /\ run' = [run EXCEPT !.pc = "idle", !.work = Unset]
      /\ UNCHANGED <<world, work, released, troubles>>
  BY DEF RecordRefresh
<1>2. RefreshTypeOK  BY DEF RefreshInv
<1>3. run' \in Processes /\ run'.pc = "idle" /\ run'.work = Unset /\ run'.gaps = run.gaps
  BY <1>1, <1>2 DEF RefreshTypeOK, Processes
<1>4. nextAt' \in 1 .. LastDay + 1  BY <1>1, <1>2, RefreshAssumption DEF RefreshTypeOK, Days
<1>5. RefreshTypeOK'  BY <1>1, <1>2, <1>3, <1>4 DEF RefreshTypeOK, world
<1> QED  BY <1>1, <1>3, <1>5, IdleStep DEF world, Ending, RefreshInv, RunInv

\* The process dies, with or without the feed's configuration.
LEMMA DeathInv == ASSUME RefreshInv, ProcessDies \/ RetireFeed PROVE RefreshInv'
<1>1. RefreshTypeOK  BY DEF RefreshInv
<1>2. run' = AtRest /\ Trouble /\ UNCHANGED <<style, day, allowed, work, nextAt, released>> /\ installed' \in {installed, FALSE}
  BY DEF ProcessDies, RetireFeed
<1>3. troubles' \in 0 .. MaxTroubles  BY <1>1, <1>2, TroubleType
<1>4. run' \in Processes /\ run'.pc = "idle" /\ run'.work = Unset  BY <1>2 DEF AtRest, Processes
<1>5. installed' \in BOOLEAN  BY <1>1, <1>2 DEF RefreshTypeOK
<1>6. RefreshTypeOK'  BY <1>1, <1>2, <1>3, <1>4, <1>5 DEF RefreshTypeOK
<1> QED  BY <1>2, <1>6, RestStep

\* The date and the Source's permission change under a process that keeps what it holds.
LEMMA WorldInv ==
    ASSUME RefreshInv, Midnight \/ StopOrStart
    PROVE  RefreshInv'
<1>1. RefreshTypeOK  BY DEF RefreshInv
<1>2. UNCHANGED <<style, installed, work, run, nextAt, released>>  BY DEF Midnight, StopOrStart
<1>3. RefreshTypeOK'
  <2>1. CASE Midnight
    <3>1. day' \in Days  BY <1>1, <2>1, RefreshAssumption DEF Midnight, RefreshTypeOK, Days
    <3>2. UNCHANGED <<allowed, troubles>>  BY <2>1 DEF Midnight
    <3> QED  BY <1>1, <1>2, <3>1, <3>2 DEF RefreshTypeOK
  <2>2. CASE StopOrStart
    <3>1. troubles' \in 0 .. MaxTroubles  BY <1>1, <2>2, TroubleType DEF StopOrStart
    <3>2. allowed' \in BOOLEAN /\ UNCHANGED day  BY <2>2 DEF StopOrStart
    <3> QED  BY <1>1, <1>2, <3>1, <3>2 DEF RefreshTypeOK
  <2> QED  BY <2>1, <2>2
<1>4. Ending' => run'.work \in Days /\ Submitted(run'.work)
  <2>1. Ending => run.work \in Days  BY <1>1, HasWork DEF Ending
  <2> QED  BY <1>2, <2>1 DEF Ending, RefreshInv, RunInv
<1> QED  BY <1>2, <1>3, <1>4, IdleStep DEF RefreshInv, RunInv

\* Every step keeps the invariant.
LEMMA RefreshNextInv == ASSUME RefreshInv, [RefreshNext]_refreshVars PROVE RefreshInv'
<1>1. CASE UNCHANGED refreshVars
  <2>1. /\ UNCHANGED <<style, day, allowed, installed, work, run, nextAt, released, troubles>>
    BY <1>1 DEF refreshVars
  <2>2. RefreshTypeOK'  BY <2>1 DEF RefreshInv, RefreshTypeOK
  <2>3. Ending' => run'.work \in Days /\ Submitted(run'.work)
    <3>1. Ending => run.work \in Days  BY HasWork DEF Ending, RefreshInv
    <3> QED  BY <2>1, <3>1 DEF Ending, RefreshInv, RunInv
  <2> QED  BY <2>1, <2>2, <2>3, IdleStep DEF RefreshInv, RunInv
<1>2. CASE RefreshStep
  BY <1>2, BeginCycleInv, ClaimWorkInv, SettleRetiredInv, ReplayClosedInv, ReserveRefreshInv,
     FetchPageInv, FetchStoppedInv,
     SubmitInv, FreezeRefreshInv, CloseRoundInv, SettleRoundInv, RecordRefreshInv
     DEF RefreshStep
<1>3. CASE RefreshFault  BY <1>3, FetchWaitsInv, FetchFailsInv, FetchCutOffInv, DeathInv DEF RefreshFault
<1>4. CASE RefreshWorld  BY <1>4, WorldInv, DeathInv DEF RefreshWorld
<1> QED  BY <1>1, <1>2, <1>3, <1>4 DEF RefreshNext

\* What a row of the journal says stays said.
KeptRow(w, v) == (w.frozen => v.frozen) /\ \A p \in PageNames : w.pages[p] # Unset => v.pages[p] = w.pages[p]

\* A journal's row is replaced by one that keeps what it says.
LEMMA JournalKeeps ==
    ASSUME RefreshTypeOK, run.pc \notin {"idle", "claim"}, NEW w, Journal(w), KeptRow(MyWork, w)
    PROVE  \A d \in Days : KeptRow(work[d], work'[d])
<1>1. run.work \in Days /\ work \in [Days -> RefreshWorks]  BY HasWork DEF RefreshTypeOK
<1>2. \A d \in Days : work'[d] = IF d = run.work THEN w ELSE work[d]  BY <1>1 DEF Journal
<1> QED  BY <1>2 DEF KeptRow, MyWork

\* No step replaces a page of a journal, or thaws a manifest.
LEMMA WorksKept ==
    ASSUME RefreshInv, RefreshNext
    PROVE  \A d \in Days : KeptRow(work[d], work'[d])
<1> USE DEF KeptRow
<1>1. RefreshTypeOK /\ style \in {"us", "tw"}  BY RefreshAssumption DEF RefreshInv, RefreshTypeOK
<1>2. ASSUME run.pc \notin {"idle", "claim"} PROVE MyWork \in RefreshWorks
  BY <1>1, <1>2, HasWork DEF RefreshTypeOK, MyWork
<1>3. CASE work' = work  BY <1>3
<1>4. CASE BeginCycle \/ ClaimWork
  <2>1. CASE BeginCycle
    <3>1. work' = work \/ work' = [work EXCEPT ![day].st = IF @ = "none" THEN "queued" ELSE @]
      BY <2>1 DEF BeginCycle, Enqueued
    <3>2. CASE work' = [work EXCEPT ![day].st = IF @ = "none" THEN "queued" ELSE @]
      BY <1>1, <3>2 DEF RefreshTypeOK, RefreshWorks
    <3> QED  BY <1>3, <3>1, <3>2
  <2>2. CASE ClaimWork
    <3> DEFINE d == CHOOSE x \in ClaimOrder : \A y \in ClaimOrder : x <= y
    <3>1. work' = work \/ work' = [work EXCEPT ![d].st = "owned"]  BY <2>2 DEF ClaimWork
    <3> HIDE DEF d
    <3>2. CASE work' = [work EXCEPT ![d].st = "owned"]  BY <1>1, <3>2 DEF RefreshTypeOK, RefreshWorks
    <3> QED  BY <1>3, <3>1, <3>2
  <2> QED  BY <1>4, <2>1, <2>2
<1>5. CASE ReserveRefresh
  <2>1. work' = work \/ (run.pc = "owned" /\ Journal([MyWork EXCEPT !.budget = @ + 1]))  BY <1>5 DEF ReserveRefresh
  <2>2. ASSUME run.pc = "owned" PROVE KeptRow(MyWork, [MyWork EXCEPT !.budget = @ + 1])
    BY <1>2, <2>2 DEF RefreshWorks
  <2> QED  BY <1>1, <1>3, <2>1, <2>2, JournalKeeps
<1>6. CASE FetchStopped \/ FetchWaits \/ FetchFails \/ FetchCutOff
  <2>1. run.pc = "fetch" /\ (Journal(Released(MyWork)) \/ Journal(Called(MyWork)))
    BY <1>6 DEF FetchStopped, FetchWaits, FetchFails, FetchCutOff
  <2>2. KeptRow(MyWork, Released(MyWork)) /\ KeptRow(MyWork, Called(MyWork))  BY <2>1, RowAfter
  <2> QED  BY <1>1, <2>1, <2>2, JournalKeeps
<1>7. CASE FetchPage
  <2>0. PICK edition : Journal([Called(MyWork) EXCEPT !.pages = [MyWork.pages EXCEPT ![NextPage] = edition]])
    BY <1>7 DEF FetchPage
  <2> DEFINE pages == [MyWork.pages EXCEPT ![NextPage] = edition]
             w == [Called(MyWork) EXCEPT !.pages = pages]
  <2>1. run.pc = "fetch" /\ Missing # {} /\ Journal(w)  BY <1>7, <2>0 DEF FetchPage
  <2>2. NextPage \in PageNames /\ MyWork.pages[NextPage] = Unset  BY <1>1, <2>1, NextPageIsMissing
  <2>3. Called(MyWork) \in RefreshWorks /\ Called(MyWork).frozen = MyWork.frozen /\ MyWork \in RefreshWorks
    BY <2>1, RowAfter
  <2>4. \A p \in PageNames : MyWork.pages[p] # Unset => pages[p] = MyWork.pages[p]  BY <2>2, <2>3 DEF RefreshWorks
  <2> HIDE DEF pages
  <2>5. w.pages = pages /\ w.frozen = MyWork.frozen  BY <2>3 DEF RefreshWorks
  <2> HIDE DEF w
  <2>6. KeptRow(MyWork, w)  BY <2>4, <2>5
  <2> QED  BY <1>1, <2>1, <2>6, JournalKeeps
<1>8. CASE FreezeRefresh
  <2>1. run.pc = "freeze" /\ MyWork \in RefreshWorks  BY <1>2, <1>8 DEF FreezeRefresh
  <2>2. CASE Journal([MyWork EXCEPT !.kept = TRUE, !.frozen = TRUE])
    <3>1. KeptRow(MyWork, [MyWork EXCEPT !.kept = TRUE, !.frozen = TRUE])  BY <2>1 DEF RefreshWorks
    <3> QED  BY <1>1, <2>1, <2>2, <3>1, JournalKeeps
  <2>3. CASE \E received \in BOOLEAN : Journal([MyWork EXCEPT !.kept = TRUE, !.frozen = @ \/ received])
    <3>1. PICK received \in BOOLEAN : Journal([MyWork EXCEPT !.kept = TRUE, !.frozen = @ \/ received])  BY <2>3
    <3>2. KeptRow(MyWork, [MyWork EXCEPT !.kept = TRUE, !.frozen = @ \/ received])  BY <2>1 DEF RefreshWorks
    <3> QED  BY <1>1, <2>1, <3>1, <3>2, JournalKeeps
  <2> QED  BY <1>8, <2>2, <2>3 DEF FreezeRefresh
<1>9. CASE CloseRound
  <2>1. run.pc = "close" /\ MyWork \in RefreshWorks /\ Journal([MyWork EXCEPT !.closed = TRUE])  BY <1>2, <1>9 DEF CloseRound
  <2>2. KeptRow(MyWork, [MyWork EXCEPT !.closed = TRUE])  BY <2>1 DEF RefreshWorks
  <2> QED  BY <1>1, <2>1, <2>2, JournalKeeps
<1>10. CASE SettleRound
  <2> DEFINE w == [MyWork EXCEPT !.st = SettledState(run.outcome), !.closed = run.outcome # "retry"]
  <2>1. run.pc = "settle" /\ MyWork \in RefreshWorks /\ Journal(w)  BY <1>2, <1>10 DEF SettleRound
  <2>2. KeptRow(MyWork, w)  BY <2>1 DEF RefreshWorks
  <2> HIDE DEF w
  <2> QED  BY <1>1, <2>1, <2>2, JournalKeeps
<1>11. ASSUME SettleRetired \/ ReplayClosed \/ Submit \/ RecordRefresh \/ ProcessDies \/ Midnight \/ StopOrStart \/ RetireFeed
       PROVE  work' = work
  BY <1>11 DEF SettleRetired, ReplayClosed, Submit, RecordRefresh, ProcessDies, Midnight,
     StopOrStart, RetireFeed
<1> QED
  BY <1>3, <1>4, <1>5, <1>6, <1>7, <1>8, <1>9, <1>10, <1>11 DEF RefreshNext, RefreshStep,
     RefreshFault, RefreshWorld

---------------------------------------------------------------------------
(* Theorems. *)

\* The inductive invariant of a refresh: journals and submissions are as the header of this module
\* says, whatever fails or dies and whenever the pages change.
THEOREM RefreshInvariance == RefreshSpec => []RefreshInv
<1>1. RefreshInit => RefreshInv  BY RefreshInitInv
<1>2. RefreshInv /\ [RefreshNext]_refreshVars => RefreshInv'  BY RefreshNextInv
<1> QED  BY <1>1, <1>2, PTL DEF RefreshSpec

\* Every variable of a refresh keeps its type, the budget of a work included: RefreshTypeOK.
THEOREM RefreshTypeCorrect == RefreshSpec => []RefreshTypeOK
<1>1. RefreshInv => RefreshTypeOK  BY DEF RefreshInv
<1> QED  BY <1>1, RefreshInvariance, PTL

\* Whatever the editions list and whenever they change, a submitted universe lists no symbol twice,
\* loses none that every edition lists (unless it joined Taiwanese tables of two days), leaves out
\* only excluded types and unknown funds and maps only to rows or companies that are a listing's
\* own; and a completed refresh submitted its journal's pages within its budget
\* (sync_universes(), scope_us_members(), map_catalogue(), claimed_work()).
THEOREM UniversesAreSound == RefreshSpec => []UniversesSound
<1>1. ASSUME RefreshInv PROVE UniverseSound
  <2>1. style \in {"us", "tw"}  BY <1>1, RefreshAssumption DEF RefreshInv, RefreshTypeOK
  <2> SUFFICES ASSUME NEW u \in released PROVE OnceListed(u) /\ LeftOutRightly(u) /\ MappedRightly(u)
    BY DEF UniverseSound
  <2>2. Made(u)  BY <1>1 DEF RefreshInv, ReleasedInv
  <2> QED  BY <2>1, <2>2, MadeIsOnceListed, MadeLeavesOut, MadeMaps
<1>2. ASSUME RefreshInv PROVE RefreshHonest
  <2> SUFFICES ASSUME NEW d \in Days PROVE (work[d].st = "completed" => Submitted(d)) /\ work[d].calls <= MaxAttempts
    BY DEF RefreshHonest
  <2>1. work[d].calls \in Nat /\ work[d].budget \in 0 .. MaxAttempts  BY <1>2 DEF RefreshInv, RefreshTypeOK, RefreshWorks
  <2>2. work[d].calls + Reserved(d) <= work[d].budget /\ Reserved(d) \in {0, 1}  BY <1>2 DEF RefreshInv, BudgetInv, Reserved
  <2>3. work[d].calls <= MaxAttempts  BY <2>1, <2>2, RefreshAssumption
  <2> QED  BY <1>2, <2>3 DEF RefreshInv, DoneInv
<1>3. RefreshInv => UniversesSound  BY <1>1, <1>2 DEF UniversesSound
<1> QED  BY <1>3, RefreshInvariance, PTL

\* No step takes back a page of a journal, a frozen manifest or a submission: JournalKept.
THEOREM JournalIsKept == RefreshSpec => [][JournalKept]_refreshVars
<1>1. ASSUME RefreshInv, [RefreshNext]_refreshVars PROVE [JournalKept]_refreshVars
  <2> SUFFICES ASSUME RefreshNext PROVE JournalKept  BY <1>1
  <2>1. released \subseteq released'
    BY DEF RefreshNext, RefreshStep, RefreshFault, RefreshWorld, BeginCycle, ClaimWork,
       SettleRetired, ReplayClosed,
           ReserveRefresh, FetchPage, FetchStopped, Submit, FreezeRefresh, CloseRound, SettleRound, RecordRefresh, FetchWaits, Entered,
           FetchFails, FetchCutOff, ProcessDies, Midnight, StopOrStart, RetireFeed
  <2>2. ASSUME NEW d \in Days PROVE KeptRow(work[d], work'[d])  BY <1>1, WorksKept
  <2> QED  BY <2>1, <2>2 DEF JournalKept, KeptRow
<1> QED  BY <1>1, RefreshInvariance, PTL DEF RefreshSpec
=============================================================================
