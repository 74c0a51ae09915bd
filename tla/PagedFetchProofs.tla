--------------------------- MODULE PagedFetchProofs ---------------------------
(***************************************************************************)
(* Proofs about PagedFetch for every set of pages, every page graph and    *)
(* every limit.                                                            *)
(*                                                                         *)
(* The inductive invariant ties the three things the loop keeps apart: the *)
(* requests made (asked), the guard's memory (seen, pages) and the result  *)
(* accumulated (got). asked is a path of the server's graph; seen holds    *)
(* the pages of that path after the first, and while a request is being    *)
(* prepared the page about to be requested; pages counts the path.         *)
(***************************************************************************)
EXTENDS PagedFetch, TLAPS

\* The pages that were requested because a link named them.
Linked == {asked[i] : i \in 2..Len(asked)}

AskedIsPath == Abstract!IsPath(asked)

LinkedOnce == \A i, j \in 2..Len(asked) : asked[i] = asked[j] => i = j

LinkedSeen == Linked \subseteq seen

PagesWithinLimit == max_pages > 0 => pages <= max_pages

AtRequest ==
    pc = "request" =>
        /\ got = asked
        /\ pages = Len(asked) + 1
        /\ asked = <<>> => current = Start /\ seen = {}
        /\ asked # <<>> =>
              /\ server[asked[Len(asked)]] = current
              /\ current \notin Linked
              /\ seen = Linked \cup {current}

AfterRequest ==
    pc # "request" =>
        /\ asked # <<>>
        /\ pages = Len(asked)
        /\ current = asked[Len(asked)]

AtParse == pc = "parse" => asked = Append(got, current)

AfterParse ==
    pc \in {"follow", "ok", "repeat", "cap"} =>
        /\ got = asked
        /\ next = server[current]

SeenIsLinked == pc \notin {"request", "cap"} => seen = Linked

AtOutcome ==
    /\ pc = "ok" => next = End
    /\ pc = "repeat" => next \in seen
    /\ pc = "cap" => next # End /\ AtCap

IInv ==
    /\ TypeOK
    /\ AskedIsPath
    /\ LinkedOnce
    /\ LinkedSeen
    /\ PagesWithinLimit
    /\ AtRequest
    /\ AfterRequest
    /\ AtParse
    /\ AfterParse
    /\ SeenIsLinked
    /\ AtOutcome

-------------------------------------------------------------------------------

LEMMA InitIInv == Init => IInv
  <1> SUFFICES ASSUME Init PROVE IInv
    OBVIOUS
  <1> USE PagedFetchAssumption DEF Init
  <1>1. TypeOK
    BY DEF TypeOK
  <1>2. AskedIsPath /\ LinkedOnce /\ LinkedSeen /\ PagesWithinLimit
    BY DEF AskedIsPath, Abstract!IsPath, LinkedOnce, LinkedSeen, Linked,
           PagesWithinLimit
  <1>3. AtRequest /\ AfterRequest /\ AtParse /\ AfterParse
    BY DEF AtRequest, AfterRequest, AtParse, AfterParse
  <1>4. SeenIsLinked /\ AtOutcome
    BY DEF SeenIsLinked, AtOutcome
  <1> QED
    BY <1>1, <1>2, <1>3, <1>4 DEF IInv

\* The type invariant is inductive by itself.
LEMMA NextTypeOK == TypeOK /\ [Next]_vars => TypeOK'
  <1> SUFFICES ASSUME TypeOK, [Next]_vars PROVE TypeOK'
    OBVIOUS
  <1> USE DEF TypeOK, Outcomes, Errors
  <1>1. CASE RequestPage
    BY <1>1 DEF RequestPage
  <1>2. CASE ParsePage
    BY <1>2 DEF ParsePage
  <1>3. CASE RejectPage
    BY <1>3 DEF RejectPage
  <1>4. CASE LastPage
    BY <1>4 DEF LastPage
  <1>5. CASE GuardRepeat
    BY <1>5 DEF GuardRepeat
  <1>6. CASE GuardCap
    BY <1>6 DEF GuardCap
  <1>7. CASE FollowPage
    BY <1>7 DEF FollowPage
  <1>8. CASE UNCHANGED vars
    BY <1>8 DEF vars
  <1> QED
    BY <1>1, <1>2, <1>3, <1>4, <1>5, <1>6, <1>7, <1>8 DEF Next, Terminated

\* Requesting the page the guard let through extends the path by one.
LEMMA RequestIInv == IInv /\ RequestPage => IInv'
  <1> SUFFICES ASSUME IInv, RequestPage PROVE IInv'
    OBVIOUS
  <1> USE PagedFetchAssumption DEF RequestPage
  <1>0. TypeOK'
    BY NextTypeOK DEF IInv, Next
  <1>1. /\ asked' = Append(asked, current)
        /\ Len(asked') = Len(asked) + 1
        /\ asked'[Len(asked')] = current
        /\ \A i \in 1..Len(asked) : asked'[i] = asked[i]
    BY DEF IInv, TypeOK
  <1>2. Len(asked) \in Nat /\ (asked # <<>> <=> Len(asked) > 0)
    BY DEF IInv, TypeOK
  <1>3. AskedIsPath'
    BY <1>1, <1>2 DEF IInv, AskedIsPath, Abstract!IsPath, AtRequest
  <1>4. Linked' = IF asked = <<>> THEN {} ELSE Linked \cup {current}
    BY <1>1, <1>2 DEF Linked
  <1>5. LinkedOnce'
    BY <1>1, <1>2 DEF IInv, LinkedOnce, Linked, AtRequest
  <1>6. LinkedSeen' /\ SeenIsLinked'
    BY <1>2, <1>4 DEF IInv, LinkedSeen, SeenIsLinked, AtRequest, Linked
  <1>7. PagesWithinLimit'
    BY DEF IInv, PagesWithinLimit
  <1>8. AtRequest' /\ AfterRequest' /\ AtParse' /\ AfterParse' /\ AtOutcome'
    BY <1>1, <1>2 DEF IInv, AtRequest, AfterRequest, AtParse, AfterParse,
                      AtOutcome
  <1> QED
    BY <1>0, <1>3, <1>5, <1>6, <1>7, <1>8 DEF IInv

\* Parsing a page puts it into the result that mirrors the path.
LEMMA ParseIInv == IInv /\ ParsePage => IInv'
  <1> SUFFICES ASSUME IInv, ParsePage PROVE IInv'
    OBVIOUS
  <1> USE DEF ParsePage
  <1>0. TypeOK'
    BY NextTypeOK DEF IInv, Next
  <1>1. AskedIsPath' /\ LinkedOnce' /\ LinkedSeen' /\ PagesWithinLimit'
    BY DEF IInv, AskedIsPath, Abstract!IsPath, LinkedOnce, LinkedSeen, Linked,
           PagesWithinLimit
  <1>2. AtRequest' /\ AfterRequest' /\ AtParse' /\ AfterParse'
    BY DEF IInv, AtRequest, AfterRequest, AtParse, AfterParse
  <1>3. SeenIsLinked' /\ AtOutcome'
    BY DEF IInv, SeenIsLinked, Linked, AtOutcome
  <1> QED
    BY <1>0, <1>1, <1>2, <1>3 DEF IInv

\* The steps that end the fetch change nothing but pc, and the cap's seen.
LEMMA EndIInv ==
  IInv /\ (RejectPage \/ LastPage \/ GuardRepeat \/ GuardCap) => IInv'
  <1> SUFFICES ASSUME IInv, RejectPage \/ LastPage \/ GuardRepeat \/ GuardCap
               PROVE  IInv'
    OBVIOUS
  <1> USE DEF RejectPage, LastPage, GuardRepeat, GuardCap
  <1>0. TypeOK'
    BY NextTypeOK DEF IInv, Next
  <1>1. AskedIsPath' /\ LinkedOnce' /\ LinkedSeen' /\ PagesWithinLimit'
    BY DEF IInv, AskedIsPath, Abstract!IsPath, LinkedOnce, LinkedSeen, Linked,
           PagesWithinLimit
  <1>2. AtRequest' /\ AfterRequest' /\ AtParse' /\ AfterParse'
    BY DEF IInv, AtRequest, AfterRequest, AtParse, AfterParse
  <1>3. SeenIsLinked' /\ AtOutcome'
    BY DEF IInv, SeenIsLinked, Linked, AtOutcome, AtCap, Repeated
  <1> QED
    BY <1>0, <1>1, <1>2, <1>3 DEF IInv

\* The guard lets a name through only when it is new and the limit allows one
\* page more.
LEMMA FollowIInv == IInv /\ FollowPage => IInv'
  <1> SUFFICES ASSUME IInv, FollowPage PROVE IInv'
    OBVIOUS
  <1> USE DEF FollowPage
  <1>0. TypeOK'
    BY NextTypeOK DEF IInv, Next
  <1>1. AskedIsPath' /\ LinkedOnce' /\ LinkedSeen'
    BY DEF IInv, AskedIsPath, Abstract!IsPath, LinkedOnce, LinkedSeen, Linked
  <1>2. PagesWithinLimit'
    BY PagedFetchAssumption DEF IInv, TypeOK, PagesWithinLimit, AtCap
  <1>3. AtRequest'
    BY DEF IInv, TypeOK, AtRequest, AfterRequest, AfterParse, SeenIsLinked,
           Linked, Repeated
  <1>4. AfterRequest' /\ AtParse' /\ AfterParse' /\ SeenIsLinked' /\ AtOutcome'
    BY DEF AfterRequest, AtParse, AfterParse, SeenIsLinked, AtOutcome
  <1> QED
    BY <1>0, <1>1, <1>2, <1>3, <1>4 DEF IInv

LEMMA StutterIInv == IInv /\ UNCHANGED vars => IInv'
  BY DEF IInv, vars, TypeOK, AskedIsPath, Abstract!IsPath, LinkedOnce,
         LinkedSeen, Linked, PagesWithinLimit, AtRequest, AfterRequest, AtParse,
         AfterParse, SeenIsLinked, AtOutcome, AtCap

LEMMA NextIInv == IInv /\ [Next]_vars => IInv'
  BY RequestIInv, ParseIInv, EndIInv, FollowIInv, StutterIInv
     DEF Next, Terminated

\* Type correctness: the loop's variables keep their types.
THEOREM TypeCorrect == Spec => []TypeOK
  <1>1. Init => TypeOK
    BY InitIInv DEF IInv
  <1> QED
    BY <1>1, NextTypeOK, PTL DEF Spec

\* The strengthened invariant, from which the properties follow.
THEOREM Inductive == Spec => []IInv
  BY InitIInv, NextIInv, PTL DEF Spec

-------------------------------------------------------------------------------

\* On a page that closes the path, the requested pages are a set that the
\* server's links never leave.
LEMMA RepeatIsEndless == IInv /\ next \in seen /\ pc \in {"follow", "repeat"}
                           => Abstract!Endless
  <1> SUFFICES ASSUME IInv, next \in seen, pc \in {"follow", "repeat"}
               PROVE  Abstract!Endless
    OBVIOUS
  <1> DEFINE S == {asked[i] : i \in 1..Len(asked)}
  <1>1. S \in SUBSET Pages /\ asked # <<>> /\ Len(asked) \in Nat \ {0}
    BY DEF IInv, TypeOK, AfterRequest
  <1>2. Start \in S
    BY <1>1 DEF IInv, AskedIsPath, Abstract!IsPath
  <1>3. ASSUME NEW i \in 1..Len(asked) PROVE server[asked[i]] \in S
    <2>1. CASE i < Len(asked)
      BY <1>1, <2>1 DEF IInv, AskedIsPath, Abstract!IsPath
    <2>2. CASE i = Len(asked)
      <3>1. server[asked[i]] = next
        BY <2>2 DEF IInv, AfterRequest, AfterParse
      <3>2. next \in Linked
        BY DEF IInv, SeenIsLinked
      <3> QED
        BY <3>1, <3>2, <1>1 DEF Linked
    <2> QED
      BY <2>1, <2>2, <1>1
  <1> QED
    BY <1>1, <1>2, <1>3 DEF Abstract!Endless

\* At the cap the path has max_pages pages and the server names another.
LEMMA CapIsTooLong == IInv /\ next # End /\ AtCap /\ pc \in {"follow", "cap"}
                        => Len(asked) = max_pages /\ Abstract!TooLong
  <1> SUFFICES ASSUME IInv, next # End, AtCap, pc \in {"follow", "cap"}
               PROVE  Len(asked) = max_pages /\ Abstract!TooLong
    OBVIOUS
  <1>1. Len(asked) = max_pages /\ max_pages \in Nat \ {0}
    BY PagedFetchAssumption DEF IInv, TypeOK, AfterRequest, PagesWithinLimit,
                                AtCap
  <1>2. asked \in [1..max_pages -> Pages]
    BY <1>1 DEF IInv, TypeOK
  <1>3. asked[1] = Start /\ \A i \in 1..max_pages - 1 : server[asked[i]] = asked[i + 1]
    BY <1>1 DEF IInv, AskedIsPath, Abstract!IsPath, AfterRequest
  <1>4. server[asked[max_pages]] # End
    BY <1>1 DEF IInv, AfterRequest, AfterParse
  <1> QED
    BY <1>1, <1>2, <1>3, <1>4 DEF Abstract!TooLong

\* No request is ever made beyond the limit.
LEMMA LimitOnRequests == IInv => RequestsWithinLimit
  BY PagedFetchAssumption
     DEF IInv, TypeOK, RequestsWithinLimit, Abstract!WithinLimit,
         PagesWithinLimit, AtRequest, AfterRequest

\* A page that comes back was the first request.
LEMMA OnlyStartTwice == IInv => NoPageTwice
  <1> SUFFICES ASSUME IInv,
                      NEW i \in 1..Len(asked), NEW j \in 1..Len(asked),
                      i < j, asked[i] = asked[j], i # 1
               PROVE  FALSE
    BY DEF NoPageTwice
  <1>1. i \in 2..Len(asked) /\ j \in 2..Len(asked)
    BY DEF IInv, TypeOK
  <1> QED
    BY <1>1 DEF IInv, LinkedOnce

\* When the loop ends by itself the path is the whole answer, and no page of it
\* is there twice: were the first request on it again, so would be every page
\* after it, and the path would have no end.
LEMMA EndIsWhole ==
  IInv /\ next = End /\ pc \in {"follow", "ok"} => Abstract!IsWholeAnswer(got)
  BY DEF IInv, AfterParse, AfterRequest, AskedIsPath, Abstract!IsWholeAnswer

LEMMA StartNotLinkedOnWhole ==
  ASSUME IInv, Abstract!IsWholeAnswer(asked), NEW j \in 2..Len(asked)
  PROVE  asked[j] # Start
  <1> SUFFICES ASSUME asked[j] = Start PROVE FALSE
    OBVIOUS
  <1>1. Len(asked) \in Nat /\ asked[1] = Start
    BY DEF IInv, TypeOK, AskedIsPath, Abstract!IsPath
  <1>2. server[asked[j]] \in Pages
    BY <1>1 DEF IInv, AskedIsPath, Abstract!IsPath, TypeOK
  <1>3. j < Len(asked)
    BY <1>1, <1>2, PagedFetchAssumption DEF Abstract!IsWholeAnswer
  <1>4. asked[2] = server[Start] /\ asked[j + 1] = server[Start]
    BY <1>1, <1>3 DEF IInv, AskedIsPath, Abstract!IsPath
  <1> QED
    BY <1>1, <1>3, <1>4 DEF IInv, LinkedOnce

LEMMA OkIsWhole == IInv => NeverPartial
  <1> SUFFICES ASSUME IInv, pc = "ok" PROVE
        /\ Abstract!IsWholeAnswer(got)
        /\ \A i, j \in 1..Len(got) : got[i] = got[j] => i = j
    BY DEF NeverPartial
  <1>1. Abstract!IsWholeAnswer(got)
    BY EndIsWhole DEF IInv, AtOutcome
  <1>2. got = asked /\ Len(asked) \in Nat /\ got[1] = Start
    BY <1>1 DEF IInv, TypeOK, AfterParse, Abstract!IsWholeAnswer, Abstract!IsPath
  <1>3. ASSUME NEW i \in 1..Len(got), NEW j \in 1..Len(got), got[i] = got[j]
        PROVE  i = j
    <2>1. CASE i = 1 /\ j # 1
      BY <1>1, <1>2, <1>3, <2>1, StartNotLinkedOnWhole
    <2>2. CASE i # 1 /\ j = 1
      BY <1>1, <1>2, <1>3, <2>2, StartNotLinkedOnWhole
    <2>3. CASE i # 1 /\ j # 1
      BY <1>2, <1>3, <2>3 DEF IInv, LinkedOnce
    <2> QED
      BY <2>1, <2>2, <2>3
  <1> QED
    BY <1>1, <1>3

\* A result that is returned is the server's whole chain of pages, each once.
THEOREM NeverPartialCorrect == Spec => []NeverPartial
  BY Inductive, OkIsWhole, PTL

\* The guard's repeat error is raised only for an answer without an end.
THEOREM RepeatCorrect == Spec => []RepeatMeansEndless
  <1>1. IInv => RepeatMeansEndless
    BY RepeatIsEndless DEF IInv, AtOutcome, RepeatMeansEndless
  <1> QED
    BY <1>1, Inductive, PTL

\* The guard's limit error is raised only after max_pages requests for an answer
\* of more pages.
THEOREM CapCorrect == Spec => []CapMeansTooLong
  <1>1. IInv => CapMeansTooLong
    BY CapIsTooLong DEF IInv, AtOutcome, CapMeansTooLong
  <1> QED
    BY <1>1, Inductive, PTL

\* The server sees at most max_pages requests.
THEOREM RequestsCorrect == Spec => []RequestsWithinLimit
  BY Inductive, LimitOnRequests, PTL

\* Only the first request can be asked for twice.
THEOREM NoPageTwiceCorrect == Spec => []NoPageTwice
  BY Inductive, OnlyStartTwice, PTL

-------------------------------------------------------------------------------
\* PagedFetch implements WholeFetch

LEMMA InitMaps == Init => Abstract!WholeInit
  BY DEF Init, Abstract!WholeInit

\* Only the three ways out of the loop are visible; every other step of it is a
\* stutter of the abstract fetch.
LEMMA StepMaps == IInv /\ [Next]_vars => [Abstract!WholeNext]_(Abstract!whole)
  <1> SUFFICES ASSUME IInv, [Next]_vars
               PROVE  [Abstract!WholeNext]_(Abstract!whole)
    OBVIOUS
  <1> USE DEF Abstract!whole
  <1>1. CASE RequestPage
    BY <1>1 DEF RequestPage, Abstract!WholeNext, Abstract!Fail
  <1>2. CASE ParsePage
    BY <1>2 DEF ParsePage
  <1>3. CASE RejectPage
    BY <1>3 DEF RejectPage, Abstract!WholeNext, Abstract!Fail
  <1>4. CASE LastPage
    <2>1. CASE pc' = "parse_error"
      BY <1>4, <2>1 DEF LastPage, Abstract!WholeNext, Abstract!Fail
    <2>2. CASE pc' = "ok"
      <3>1. Abstract!IsWholeAnswer(got)
        BY <1>4, EndIsWhole DEF LastPage
      <3>2. Abstract!WithinLimit(Len(got))
        BY <1>4, LimitOnRequests
           DEF LastPage, RequestsWithinLimit, IInv, AfterParse
      <3> QED
        BY <1>4, <2>2, <3>1, <3>2
           DEF LastPage, Abstract!WholeNext, Abstract!Deliver,
               Abstract!IsWholeAnswer, Abstract!IsPath
    <2> QED
      BY <1>4, <2>1, <2>2 DEF LastPage
  <1>5. CASE GuardRepeat
    <2>1. Abstract!Endless
      BY <1>5, RepeatIsEndless DEF GuardRepeat, Repeated
    <2> QED
      BY <1>5, <2>1 DEF GuardRepeat, Abstract!WholeNext, Abstract!Refuse
  <1>6. CASE GuardCap
    <2>1. Abstract!TooLong
      BY <1>6, CapIsTooLong DEF GuardCap
    <2> QED
      BY <1>6, <2>1 DEF GuardCap, Abstract!WholeNext, Abstract!Refuse
  <1>7. CASE FollowPage
    BY <1>7 DEF FollowPage
  <1>8. CASE UNCHANGED vars
    BY <1>8 DEF vars
  <1> QED
    BY <1>1, <1>2, <1>3, <1>4, <1>5, <1>6, <1>7, <1>8 DEF Next, Terminated

\* The paging loop, guard included, implements the fetch that delivers a whole
\* answer or an error.
THEOREM Refinement == Spec => ImplementsWholeFetch
  BY InitMaps, StepMaps, Inductive, PTL
     DEF Spec, ImplementsWholeFetch, Abstract!WholeSpec

===============================================================================
