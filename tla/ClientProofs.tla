----------------------------- MODULE ClientProofs -----------------------------
(***************************************************************************)
(* Proofs about what the client does in the paging loop of PagedFetch: how *)
(* a page is requested (HttpPages) and what becomes of its content         *)
(* (TableQuery), for every set of pages, bodies and limits.                *)
(*                                                                         *)
(* Both leave the loop as it is, so its theorems hold of them.             *)
(***************************************************************************)
EXTENDS HttpPages, TableQuery, PagedFetchProofs, DataLemmas

\* A step of the client is a step of the loop at the same place, or none of it.
LEMMA HPStep == [HPNext]_hpVars => [Next]_vars
  <1> SUFFICES ASSUME [HPNext]_hpVars PROVE [Next]_vars
    OBVIOUS
  <1>1. CASE Construct
    BY <1>1 DEF Construct
  <1>2. CASE ConstructorFails
    BY <1>2 DEF ConstructorFails
  <1>3. CASE ConstructorThrows
    BY <1>3 DEF ConstructorThrows
  <1>4. CASE PrepareEarlier
    BY <1>4 DEF PrepareEarlier, Prepare
  <1>5. CASE PerformEarlier
    BY <1>5 DEF PerformEarlier
  <1>6. CASE PreparePage
    BY <1>6 DEF PreparePage, Prepare
  <1>7. CASE PerformPage
    BY <1>7 DEF PerformPage, Next
  <1>8. CASE BetweenRequests
    BY <1>8 DEF BetweenRequests, Next
  <1>9. CASE Destroy
    BY <1>9 DEF Destroy
  <1>10. CASE AfterClient
    BY <1>10 DEF AfterClient, hpVars
  <1>11. CASE UNCHANGED hpVars
    BY <1>11 DEF hpVars
  <1> QED
    BY <1>1, <1>2, <1>3, <1>4, <1>5, <1>6, <1>7, <1>8, <1>9, <1>10, <1>11 DEF HPNext

\* The paged call of a client is a run of the paging loop, whatever its handle was
\* used for before: the theorems of the loop hold of it.
THEOREM ClientPages == HPSpec => Spec
  <1>1. HPInit => Init
    BY DEF HPInit
  <1> QED
    BY <1>1, HPStep, PTL DEF HPSpec, Spec

-------------------------------------------------------------------------------
\* The inductive invariant: what the options hold is what the request asks for
\* while it is about to be performed, and a page's request is the one the loop is at.

OptionsAsWanted ==
    client = "set" /\ transport = "curl" =>
        /\ options.verb = wanted.method
        /\ options.url = wanted.path
        /\ wanted.method = "POST" => options.body = wanted.body

BodyWithPost == wanted.method = "POST" <=> wanted.body # NoBody

PageWanted ==
    client = "set" /\ wanted.path # Elsewhere => pc = "request" /\ wanted = PageRequest

SentNotSet == client = "set" => sent = NoRequest

Connected ==
    /\ HPTypeOK
    /\ OptionsAsWanted
    /\ BodyWithPost
    /\ PageWanted
    /\ SentNotSet
    /\ SentAsMeant
    /\ LiveBuffers
    /\ HandleCleanedOnce

USE DEF Request, NoRequest, NoBody, QueryBody, EmptyObject, Pointers, Verbs, RequestBodies,
        Requests

LEMMA ConnectedInit == HPInit => Connected
  <1> SUFFICES ASSUME HPInit PROVE Connected
    OBVIOUS
  <1> USE DEF HPInit
  <1>1. NewHandle \in [verb : Verbs, url : Pages \cup {Elsewhere}, body : RequestBodies,
                       pointers : [Pointers -> {"unset", "live", "dead"}]]
    BY DEF NewHandle
  <1>2. HPTypeOK
    <2>1. earlier \in 0..MaxEarlier /\ cleaned \in 0..1
      BY HttpPagesAssumption
    <2>2. /\ transport \in {"curl", "xhr"} /\ kind \in {"list", "query", "changes"}
          /\ client = "new" /\ wanted = NoRequest /\ sent = NoRequest
          /\ options = NewHandle
      OBVIOUS
    <2> QED
      BY <1>1, <2>1, <2>2 DEF HPTypeOK
  <1>3. OptionsAsWanted /\ BodyWithPost /\ PageWanted /\ SentNotSet
    BY DEF OptionsAsWanted, BodyWithPost, PageWanted, SentNotSet
  <1>4. SentAsMeant /\ HandleCleanedOnce
    BY DEF SentAsMeant, HandleCleanedOnce
  <1>5. LiveBuffers
    BY DEF LiveBuffers, NewHandle
  <1> QED
    BY <1>2, <1>3, <1>4, <1>5 DEF Connected

\* What a prepared request leaves in the handle.
LEMMA PrepareStep ==
  ASSUME Connected, NEW request \in Requests,
         request.method = "POST" <=> request.body # NoBody,
         request.path # Elsewhere => pc = "request" /\ request = PageRequest,
         Prepare(request), earlier' \in 0..MaxEarlier
  PROVE  Connected'
  <1>1. /\ client = "idle" /\ client' = "set" /\ wanted' = request /\ sent' = NoRequest
        /\ UNCHANGED <<transport, kind, cleaned, pc, asked, current>>
    BY DEF Prepare, setup, vars
  <1>2. CASE transport = "curl"
    <2>1. options' = SetOptions(request)
      BY <1>2 DEF Prepare
    <2>2. /\ options'.verb = request.method
          /\ options'.url = request.path
          /\ request.method = "POST" => options'.body = request.body
          /\ options'.pointers = [p \in Pointers |-> "live"]
      BY <2>1 DEF SetOptions, VerbOf, BodyOf, PostBody, Pointed
    <2>3. options' \in [verb : Verbs, url : Pages \cup {Elsewhere}, body : RequestBodies,
                        pointers : [Pointers -> {"unset", "live", "dead"}]]
      BY <2>1 DEF SetOptions, VerbOf, BodyOf, PostBody, Pointed, Connected, HPTypeOK
    <2>4. HPTypeOK'
      BY <1>1, <2>3 DEF Connected, HPTypeOK
    <2>5. (OptionsAsWanted /\ BodyWithPost /\ SentNotSet /\ SentAsMeant)'
      BY <1>1, <1>2, <2>2 DEF OptionsAsWanted, BodyWithPost, SentNotSet, SentAsMeant
    <2>6. PageWanted'
      BY <1>1 DEF PageWanted, PageRequest
    <2>7. (LiveBuffers /\ HandleCleanedOnce)'
      BY <1>1, <1>2, <2>2 DEF Connected, LiveBuffers, HandleCleanedOnce
    <2> QED
      BY <2>4, <2>5, <2>6, <2>7 DEF Connected
  <1>3. CASE transport # "curl"
    <2>1. options' = options
      BY <1>3 DEF Prepare
    <2>2. HPTypeOK'
      BY <1>1, <2>1 DEF Connected, HPTypeOK
    <2>3. (OptionsAsWanted /\ BodyWithPost /\ SentNotSet /\ SentAsMeant)'
      BY <1>1, <1>3 DEF OptionsAsWanted, BodyWithPost, SentNotSet, SentAsMeant
    <2>4. PageWanted'
      BY <1>1 DEF PageWanted, PageRequest
    <2>5. (LiveBuffers /\ HandleCleanedOnce)'
      BY <1>1, <1>3 DEF Connected, LiveBuffers, HandleCleanedOnce
    <2> QED
      BY <2>2, <2>3, <2>4, <2>5 DEF Connected
  <1> QED
    BY <1>2, <1>3

\* What goes out is what was wanted, and the pointers are dead afterwards.
LEMMA PerformStep ==
  ASSUME Connected, Perform
  PROVE  /\ sent' = wanted
         /\ transport = "curl" => options'.pointers = [p \in Pointers |-> "dead"]
         /\ options' \in [verb : Verbs, url : Pages \cup {Elsewhere}, body : RequestBodies,
                          pointers : [Pointers -> {"unset", "live", "dead"}]]
  <1>1. /\ client = "set"
        /\ wanted \in Requests \cup {NoRequest}
        /\ wanted.method = "POST" <=> wanted.body # NoBody
    BY DEF Perform, Connected, HPTypeOK, BodyWithPost
  <1>2. wanted = [method |-> wanted.method, path |-> wanted.path, body |-> wanted.body]
    BY <1>1
  <1>3. CASE transport = "curl"
    <2>1. sent' = Sent(options) /\ options' = AfterReturn(options)
      BY <1>3 DEF Perform
    <2>2. sent' = wanted
      BY <1>1, <1>2, <1>3, <2>1 DEF Sent, Connected, OptionsAsWanted
    <2>3. /\ options'.pointers = [p \in Pointers |-> "dead"]
          /\ options' \in [verb : Verbs, url : Pages \cup {Elsewhere}, body : RequestBodies,
                           pointers : [Pointers -> {"unset", "live", "dead"}]]
      BY <2>1 DEF AfterReturn, Connected, HPTypeOK
    <2> QED
      BY <2>2, <2>3
  <1>4. CASE transport # "curl"
    <2>1. sent' = SentByXhr(wanted) /\ options' = options
      BY <1>4 DEF Perform
    <2>2. sent' = wanted
      BY <1>1, <1>2, <2>1 DEF SentByXhr, PostBody
    <2> QED
      BY <1>4, <2>1, <2>2 DEF Connected, HPTypeOK
  <1> QED
    BY <1>3, <1>4

\* A prepared page's request goes out as the loop's next one.
LEMMA PerformPageStep == Connected /\ TypeOK /\ PerformPage => Connected'
  <1> SUFFICES ASSUME Connected, TypeOK, PerformPage PROVE Connected'
    OBVIOUS
  <1>1. /\ sent' = wanted
        /\ transport = "curl" => options'.pointers = [p \in Pointers |-> "dead"]
        /\ options' \in [verb : Verbs, url : Pages \cup {Elsewhere}, body : RequestBodies,
                         pointers : [Pointers -> {"unset", "live", "dead"}]]
    BY PerformStep DEF PerformPage
  <1>2. /\ client = "set" /\ client' = "idle" /\ asked' = Append(asked, current)
        /\ UNCHANGED <<transport, kind, wanted, earlier, cleaned, current>>
    BY DEF PerformPage, Perform, RequestPage, setup
  <1>3. wanted.path # Elsewhere /\ wanted = PageRequest
    BY <1>2 DEF PerformPage, Connected, PageWanted
  <1>4. HPTypeOK'
    BY <1>1, <1>2 DEF Connected, HPTypeOK
  <1>5. (OptionsAsWanted /\ BodyWithPost /\ PageWanted /\ SentNotSet)'
    BY <1>2 DEF Connected, OptionsAsWanted, BodyWithPost, PageWanted, SentNotSet
  <1>6. (LiveBuffers /\ HandleCleanedOnce)'
    BY <1>1, <1>2 DEF Connected, LiveBuffers, HandleCleanedOnce
  <1>7. /\ Len(asked') = Len(asked) + 1
        /\ asked'[Len(asked')] = current
        /\ Len(asked') = 1 <=> asked = <<>>
    BY <1>2 DEF TypeOK
  <1>8. SentAsMeant'
    BY <1>1, <1>2, <1>3, <1>7 DEF SentAsMeant, PageRequest
  <1> QED
    BY <1>4, <1>5, <1>6, <1>8 DEF Connected

LEMMA PerformEarlierStep == Connected /\ PerformEarlier => Connected'
  <1> SUFFICES ASSUME Connected, PerformEarlier PROVE Connected'
    OBVIOUS
  <1>1. /\ sent' = wanted
        /\ transport = "curl" => options'.pointers = [p \in Pointers |-> "dead"]
        /\ options' \in [verb : Verbs, url : Pages \cup {Elsewhere}, body : RequestBodies,
                         pointers : [Pointers -> {"unset", "live", "dead"}]]
    BY PerformStep DEF PerformEarlier
  <1>2. /\ client = "set" /\ client' \in {"idle", "failed"} /\ wanted.path = Elsewhere
        /\ UNCHANGED <<transport, kind, wanted, earlier, cleaned>>
    BY DEF PerformEarlier, Perform, setup
  <1>3. HPTypeOK'
    BY <1>1, <1>2 DEF Connected, HPTypeOK
  <1>4. (OptionsAsWanted /\ BodyWithPost /\ PageWanted /\ SentNotSet /\ SentAsMeant)'
    BY <1>1, <1>2
       DEF Connected, OptionsAsWanted, BodyWithPost, PageWanted, SentNotSet, SentAsMeant
  <1>5. (LiveBuffers /\ HandleCleanedOnce)'
    BY <1>1, <1>2 DEF Connected, LiveBuffers, HandleCleanedOnce
  <1> QED
    BY <1>3, <1>4, <1>5 DEF Connected

\* A page is requested by a GET without a body, or by the POST of a table query.
LEMMA PreparePageStep == Connected /\ TypeOK /\ PreparePage => Connected'
  <1> SUFFICES ASSUME Connected, TypeOK, PreparePage PROVE Connected'
    OBVIOUS
  <1>1. /\ PageRequest \in Requests
        /\ PageRequest.method = "POST" <=> PageRequest.body # NoBody
    BY DEF PageRequest, TypeOK
  <1>2. pc = "request" /\ Prepare(PageRequest) /\ earlier' \in 0..MaxEarlier
    BY DEF PreparePage, Connected, HPTypeOK
  <1> QED
    BY <1>1, <1>2, PrepareStep

LEMMA PrepareEarlierStep == Connected /\ PrepareEarlier => Connected'
  <1> SUFFICES ASSUME Connected, PrepareEarlier PROVE Connected'
    OBVIOUS
  <1>1. PICK method \in Verbs :
           Prepare(Request(method, Elsewhere, IF method = "POST" THEN QueryBody ELSE NoBody))
    BY DEF PrepareEarlier
  <1> DEFINE request == Request(method, Elsewhere,
                                IF method = "POST" THEN QueryBody ELSE NoBody)
  <1>2. /\ request \in Requests /\ request.path = Elsewhere
        /\ request.method = "POST" <=> request.body # NoBody
    OBVIOUS
  <1>3. earlier' \in 0..MaxEarlier
    <2>1. earlier \in 0..MaxEarlier
      BY DEF Connected, HPTypeOK
    <2> QED
      BY <2>1, HttpPagesAssumption DEF PrepareEarlier
  <1>4. Prepare(request)
    BY <1>1
  <1> HIDE DEF request
  <1> QED
    BY <1>2, <1>3, <1>4, PrepareStep

\* The client's own steps change neither the options nor what was sent.
LEMMA ClientStep ==
  ASSUME Connected, client # "set", UNCHANGED <<setup, options, wanted, sent, earlier>>,
         client' \in {"idle", "void", "refused", "gone"},
         asked' = asked, HandleCleanedOnce'
  PROVE  Connected'
  <1>1. HPTypeOK'
    <2>1. cleaned' \in 0..1
      BY DEF HandleCleanedOnce
    <2> QED
      BY <2>1 DEF Connected, HPTypeOK, setup
  <1>2. (OptionsAsWanted /\ BodyWithPost /\ PageWanted /\ SentNotSet)'
    BY DEF Connected, OptionsAsWanted, BodyWithPost, PageWanted, SentNotSet
  <1>3. SentAsMeant'
    BY DEF Connected, SentAsMeant, setup
  <1>4. LiveBuffers'
    BY DEF Connected, LiveBuffers, setup
  <1> QED
    BY <1>1, <1>2, <1>3, <1>4 DEF Connected

LEMMA StutterStep == Connected /\ UNCHANGED hpVars => Connected'
  BY DEF Connected, hpVars, vars, setup, http, HPTypeOK, OptionsAsWanted, BodyWithPost,
         PageWanted, PageRequest, SentNotSet, SentAsMeant, LiveBuffers, HandleCleanedOnce

LEMMA NextConnected == Connected /\ TypeOK /\ [HPNext]_hpVars => Connected'
  <1> SUFFICES ASSUME Connected, TypeOK, [HPNext]_hpVars PROVE Connected'
    OBVIOUS
  <1>1. CASE Construct
    BY <1>1, ClientStep DEF Construct, Connected, HandleCleanedOnce, setup, vars
  <1>2. CASE ConstructorFails
    BY <1>2, ClientStep DEF ConstructorFails, Connected, HandleCleanedOnce, setup, vars
  <1>3. CASE ConstructorThrows
    BY <1>3, ClientStep DEF ConstructorThrows, Connected, HandleCleanedOnce, setup, vars
  <1>4. CASE PrepareEarlier
    BY <1>4, PrepareEarlierStep
  <1>5. CASE PerformEarlier
    BY <1>5, PerformEarlierStep
  <1>6. CASE PreparePage
    BY <1>6, PreparePageStep
  <1>7. CASE PerformPage
    BY <1>7, PerformPageStep
  <1>8. CASE BetweenRequests
    <2>1. asked' = asked /\ client = "idle" /\ UNCHANGED <<setup, http>>
      BY <1>8 DEF BetweenRequests, ParsePage, RejectPage, LastPage, GuardRepeat, GuardCap,
                  FollowPage
    <2> QED
      BY <2>1, ClientStep DEF Connected, HandleCleanedOnce, setup, http
  <1>9. CASE Destroy
    BY <1>9, ClientStep DEF Destroy, Connected, HandleCleanedOnce, setup, vars
  <1>10. CASE AfterClient
    BY <1>10, StutterStep DEF AfterClient
  <1>11. CASE UNCHANGED hpVars
    BY <1>11, StutterStep
  <1> QED
    BY <1>1, <1>2, <1>3, <1>4, <1>5, <1>6, <1>7, <1>8, <1>9, <1>10, <1>11 DEF HPNext

THEOREM ConnectedAlways == HPSpec => []Connected
  <1>1. HPSpec => []TypeOK
    BY ClientPages, TypeCorrect, PTL
  <1> QED
    BY <1>1, ConnectedInit, NextConnected, PTL DEF HPSpec

-------------------------------------------------------------------------------

\* The variables of the client keep their types.
THEOREM ClientTypeCorrect == HPSpec => []HPTypeOK
  BY ConnectedAlways, PTL DEF Connected

\* Every request goes out as it was asked for, over any number of earlier requests on
\* the same handle.
THEOREM SentCorrect == HPSpec => []SentAsMeant
  BY ConnectedAlways, PTL DEF Connected

\* No request is performed with a pointer into an earlier request's frame.
THEOREM BuffersCorrect == HPSpec => []LiveBuffers
  BY ConnectedAlways, PTL DEF Connected

\* The handle is closed exactly once, on every way out.
THEOREM HandleCorrect == HPSpec => []HandleCleanedOnce
  BY ConnectedAlways, PTL DEF Connected

\* A paged call on a client returns the whole answer or throws.
THEOREM ClientFetchesWhole == HPSpec => ImplementsWholeFetch
  BY ClientPages, Refinement, PTL

HIDE DEF Request, NoRequest, NoBody, QueryBody, EmptyObject, Pointers, Verbs,
         RequestBodies, Requests

-------------------------------------------------------------------------------
\* TableQuery

\* Every action of a query is the action of the paging loop at the same place.
LEMMA TQStep == [TQNext]_tqVars => [Next]_vars
  <1> SUFFICES ASSUME [TQNext]_tqVars PROVE [Next]_vars
    OBVIOUS
  <1>1. CASE SendRequest
    BY <1>1 DEF SendRequest, Next
  <1>2. CASE ReadPage
    BY <1>2 DEF ReadPage, Next
  <1>3. CASE UnreadablePage
    BY <1>3 DEF UnreadablePage, Next
  <1>4. CASE EndOfPages
    BY <1>4 DEF EndOfPages, Next
  <1>5. CASE RefuseRepeat
    BY <1>5 DEF RefuseRepeat, Next
  <1>6. CASE RefuseLong
    BY <1>6 DEF RefuseLong, Next
  <1>7. CASE FollowLink
    BY <1>7 DEF FollowLink, Next
  <1>8. CASE Returned
    BY <1>8 DEF Returned, Next
  <1>9. CASE UNCHANGED tqVars
    BY <1>9 DEF tqVars
  <1> QED
    BY <1>1, <1>2, <1>3, <1>4, <1>5, <1>6, <1>7, <1>8, <1>9 DEF TQNext

\* What the two queries do with the content of the pages leaves the paging as it is:
\* every query is a run of the loop of PagedFetch.
THEOREM QueriesPage == TQSpec => PagesLikePagedFetch
  <1>1. TQInit => Init
    BY DEF TQInit
  <1> QED
    BY <1>1, TQStep, PTL DEF TQSpec, Spec, PagesLikePagedFetch

-------------------------------------------------------------------------------
\* FirstMetadataWins: what is known of the header before the first metadata is found
\* makes it inductive.

HeaderLine(p) == FirstLine(body[p], "metaData")

NoneUntilFound ==
    metadata = NoMetadata => \A k \in DOMAIN got : HeaderLine(got[k]) = {}

MetaInv ==
    /\ got \in Seq(Pages)
    /\ current \in Pages
    /\ body \in [Pages -> Bodies]
    /\ NoneUntilFound
    /\ FirstMetadataWins

\* A line of the header window is a line of the page.
LEMMA FirstLineOfPage ==
  ASSUME NEW lines \in Bodies, NEW key, NEW i \in FirstLine(lines, key)
  PROVE  i \in DOMAIN lines
  <1>1. lines \in Seq(ToSet(lines)) /\ HeaderWindow \in Nat
    BY TableQueryAssumption
  <1>2. DOMAIN Window(lines) \subseteq DOMAIN lines
    BY <1>1 DEF Window
  <1> QED
    BY <1>2 DEF FirstLine

\* Reading a page takes the metadata from it only when no page before had any.
LEMMA ReadPageMeta == MetaInv /\ TypeOK' /\ ReadPage => MetaInv'
  <1> SUFFICES ASSUME MetaInv, TypeOK', ReadPage PROVE MetaInv'
    OBVIOUS
  <1> DEFINE n == Len(got) + 1
  <1>1. /\ got' = Append(got, current) /\ got' \in Seq(Pages)
        /\ DOMAIN got' = 1..n /\ DOMAIN got = 1..n - 1 /\ n \in Nat \ {0}
        /\ got'[n] = current /\ \A k \in 1..n - 1 : got'[k] = got[k]
    BY DEF MetaInv, ReadPage, ParsePage
  <1>2. body' = body /\ current' = current
    BY DEF ReadPage, ParsePage, call
  <1>3. body[current] \in Bodies
    BY DEF MetaInv
  <1>4. CASE metadata # NoMetadata
    <2>1. metadata' = metadata
      BY <1>4 DEF ReadPage, MetadataLine
    <2>2. PICK k \in DOMAIN got :
             /\ \E i \in HeaderLine(got[k]) : metadata = body[got[k]][i].id
             /\ \A j \in 1..k - 1 : HeaderLine(got[j]) = {}
      BY <1>4 DEF MetaInv, FirstMetadataWins, HeaderLine
    <2>3. k \in DOMAIN got' /\ got'[k] = got[k] /\ \A j \in 1..k - 1 : got'[j] = got[j]
      BY <1>1
    <2>4. FirstMetadataWins'
      BY <1>2, <2>1, <2>2, <2>3 DEF FirstMetadataWins, HeaderLine
    <2> QED
      BY <1>1, <1>2, <1>4, <2>1, <2>4 DEF MetaInv, NoneUntilFound
  <1>5. CASE metadata = NoMetadata /\ HeaderLine(current) = {}
    <2>1. metadata' = NoMetadata
      BY <1>5 DEF ReadPage, MetadataLine, HeaderLine
    <2>2. \A k \in 1..n : HeaderLine(got'[k]) = {}
      BY <1>1, <1>5 DEF MetaInv, NoneUntilFound
    <2> QED
      BY <1>1, <1>2, <2>1, <2>2
         DEF MetaInv, NoneUntilFound, FirstMetadataWins, HeaderLine
  <1>6. CASE metadata = NoMetadata /\ HeaderLine(current) # {}
    <2>1. PICK i \in HeaderLine(current) : metadata' = body[current][i].id
      BY <1>6 DEF ReadPage, MetadataLine, HeaderLine
    <2>2. metadata' # NoMetadata
      BY <1>3, <2>1, FirstLineOfPage, TableQueryAssumption DEF HeaderLine, IsLine
    <2>3. \A j \in 1..n - 1 : HeaderLine(got'[j]) = {}
      BY <1>1, <1>6 DEF MetaInv, NoneUntilFound
    <2>4. /\ n \in DOMAIN got'
          /\ i \in FirstLine(body'[got'[n]], "metaData")
          /\ metadata' = body'[got'[n]][i].id
      BY <1>1, <1>2, <2>1 DEF HeaderLine
    <2>5. \A j \in 1..n - 1 : FirstLine(body'[got'[j]], "metaData") = {}
      BY <1>2, <2>3 DEF HeaderLine
    <2>6. FirstMetadataWins'
      BY <2>4, <2>5 DEF FirstMetadataWins
    <2> QED
      BY <1>1, <1>2, <2>2, <2>6 DEF MetaInv, NoneUntilFound
  <1> QED
    BY <1>4, <1>5, <1>6

\* No other step reads a page.
LEMMA OtherMeta ==
  ASSUME MetaInv, TypeOK',
         UNCHANGED <<call, content>>, got' = got
  PROVE  MetaInv'
  BY DEF MetaInv, TypeOK, NoneUntilFound, FirstMetadataWins, HeaderLine, call, content

LEMMA NextMeta == MetaInv /\ TypeOK' /\ [TQNext]_tqVars => MetaInv'
  <1> SUFFICES ASSUME MetaInv, TypeOK', [TQNext]_tqVars PROVE MetaInv'
    OBVIOUS
  <1>1. CASE ReadPage
    BY <1>1, ReadPageMeta
  <1>2. CASE SendRequest
    BY <1>2, OtherMeta DEF SendRequest, RequestPage
  <1>3. CASE UnreadablePage
    BY <1>3, OtherMeta DEF UnreadablePage, RejectPage
  <1>4. CASE EndOfPages
    BY <1>4, OtherMeta DEF EndOfPages, LastPage
  <1>5. CASE RefuseRepeat
    BY <1>5, OtherMeta DEF RefuseRepeat, GuardRepeat
  <1>6. CASE RefuseLong
    BY <1>6, OtherMeta DEF RefuseLong, GuardCap
  <1>7. CASE FollowLink
    BY <1>7, OtherMeta DEF FollowLink, FollowPage
  <1>8. CASE Returned
    BY <1>8, OtherMeta DEF Returned, Terminated, vars
  <1>9. CASE UNCHANGED tqVars
    BY <1>9, OtherMeta DEF tqVars, vars
  <1> QED
    BY <1>1, <1>2, <1>3, <1>4, <1>5, <1>6, <1>7, <1>8, <1>9 DEF TQNext

\* The paging loop's invariant holds of both queries.
LEMMA QueryIInv == TQSpec => []IInv
  BY QueriesPage, Inductive, PTL DEF PagesLikePagedFetch

LEMMA QueryMetaInv == TQSpec => []MetaInv
  <1>1. TQInit => MetaInv
    BY PagedFetchAssumption
       DEF TQInit, Init, MetaInv, NoneUntilFound, FirstMetadataWins
  <1>2. IInv => TypeOK
    BY DEF IInv
  <1> QED
    BY <1>1, <1>2, QueryIInv, NextMeta, PTL DEF TQSpec

\* The metadata given to the reader is that of the first page that carries one in its
\* header window, for every set of pages, every body and every window.
THEOREM FirstMetadataCorrect == TQSpec => []FirstMetadataWins
  <1>1. MetaInv => FirstMetadataWins
    BY DEF MetaInv
  <1> QED
    BY <1>1, QueryMetaInv, PTL

-------------------------------------------------------------------------------
\* MissingHeaderIsMissing: what is missing at the end was missing on every page.

ProtocolUntilFound ==
    ~foundProtocol => \A k \in DOMAIN got : FirstLine(body[got[k]], "protocol") = {}

HeaderMissing ==
    pc = "parse_error" /\ got = asked => ~foundProtocol \/ metadata = NoMetadata

HeaderInv ==
    /\ foundProtocol \in BOOLEAN
    /\ ProtocolUntilFound
    /\ HeaderMissing

LEMMA ReadPageHeader == MetaInv /\ HeaderInv /\ ReadPage => HeaderInv'
  <1> SUFFICES ASSUME MetaInv, HeaderInv, ReadPage PROVE HeaderInv'
    OBVIOUS
  <1> DEFINE n == Len(got) + 1
  <1>1. /\ got' = Append(got, current) /\ DOMAIN got' = 1..n /\ DOMAIN got = 1..n - 1
        /\ n \in Nat \ {0} /\ got'[n] = current /\ \A k \in 1..n - 1 : got'[k] = got[k]
    BY DEF MetaInv, ReadPage, ParsePage
  <1>2. body' = body /\ pc' = "follow"
    BY DEF ReadPage, ParsePage, call
  <1>3. foundProtocol' = (foundProtocol \/ ProtocolLine(body[current]) # {})
    BY DEF ReadPage
  <1>4. foundProtocol' \in BOOLEAN
    BY <1>3 DEF HeaderInv
  <1>5. ASSUME ~foundProtocol', NEW k \in DOMAIN got'
        PROVE  FirstLine(body[got'[k]], "protocol") = {}
    <2>1. ~foundProtocol /\ FirstLine(body[current], "protocol") = {}
      BY <1>3, <1>5 DEF ProtocolLine
    <2>2. \A j \in DOMAIN got : FirstLine(body[got[j]], "protocol") = {}
      BY <2>1 DEF HeaderInv, ProtocolUntilFound
    <2> QED
      BY <1>1, <2>1, <2>2
  <1>6. ProtocolUntilFound'
    BY <1>2, <1>5 DEF ProtocolUntilFound
  <1> QED
    BY <1>2, <1>4, <1>6 DEF HeaderInv, HeaderMissing

\* A page that cannot be parsed was asked for and not read.
LEMMA OtherHeader ==
  ASSUME HeaderInv, IInv, UNCHANGED <<call, content>>,
         [SendRequest \/ UnreadablePage \/ EndOfPages \/ RefuseRepeat \/ RefuseLong
            \/ FollowLink \/ Returned]_tqVars
  PROVE  HeaderInv'
  <1>1. /\ body' = body /\ foundProtocol' = foundProtocol /\ metadata' = metadata
        /\ got' = got
    BY DEF call, content, tqVars, vars, SendRequest, UnreadablePage, EndOfPages,
           RefuseRepeat, RefuseLong, FollowLink, Returned, RequestPage, RejectPage,
           LastPage, GuardRepeat, GuardCap, FollowPage, Terminated
  <1>2. foundProtocol' \in BOOLEAN /\ ProtocolUntilFound'
    BY <1>1 DEF HeaderInv, ProtocolUntilFound
  <1>3. HeaderMissing'
    <2>1. CASE UnreadablePage
      <3>1. asked = Append(got, current) /\ asked' = asked
        BY <2>1 DEF IInv, AtParse, UnreadablePage, RejectPage
      <3>2. got # asked
        BY <3>1 DEF IInv, TypeOK
      <3> QED
        BY <1>1, <3>1, <3>2 DEF HeaderMissing
    <2>2. CASE EndOfPages
      BY <1>1, <2>2 DEF EndOfPages, HeaderMissing
    <2>3. CASE SendRequest \/ RefuseRepeat \/ RefuseLong \/ FollowLink
      BY <2>3 DEF SendRequest, RefuseRepeat, RefuseLong, FollowLink, RequestPage,
                  GuardRepeat, GuardCap, FollowPage, HeaderMissing
    <2>4. CASE Returned \/ UNCHANGED tqVars
      BY <1>1, <2>4 DEF Returned, Terminated, tqVars, vars, HeaderInv, HeaderMissing
    <2> QED
      BY <2>1, <2>2, <2>3, <2>4
  <1> QED
    BY <1>2, <1>3 DEF HeaderInv

LEMMA NextHeader == MetaInv /\ HeaderInv /\ IInv /\ [TQNext]_tqVars => HeaderInv'
  <1> SUFFICES ASSUME MetaInv, HeaderInv, IInv, [TQNext]_tqVars PROVE HeaderInv'
    OBVIOUS
  <1>1. CASE ReadPage
    BY <1>1, ReadPageHeader
  <1>2. CASE [SendRequest \/ UnreadablePage \/ EndOfPages \/ RefuseRepeat \/ RefuseLong
                \/ FollowLink \/ Returned]_tqVars
    <2>1. UNCHANGED <<call, content>>
      BY <1>2 DEF tqVars, SendRequest, UnreadablePage, EndOfPages, RefuseRepeat,
                  RefuseLong, FollowLink, Returned
    <2> QED
      BY <1>2, <2>1, OtherHeader
  <1> QED
    BY <1>1, <1>2 DEF TQNext

LEMMA QueryHeaderInv == TQSpec => []HeaderInv
  <1>1. TQInit => HeaderInv
    <2> SUFFICES ASSUME TQInit PROVE HeaderInv
      OBVIOUS
    <2>1. foundProtocol \in BOOLEAN
      BY DEF TQInit
    <2>2. pc = "request" /\ DOMAIN got = {}
      BY DEF TQInit, Init
    <2> QED
      BY <2>1, <2>2 DEF HeaderInv, ProtocolUntilFound, HeaderMissing
  <1> QED
    BY <1>1, QueryIInv, QueryMetaInv, NextHeader, PTL DEF TQSpec

\* The error for a missing header is raised only when the whole answer has none.
THEOREM MissingHeaderCorrect == TQSpec => []MissingHeaderIsMissing
  <1>1. MetaInv /\ HeaderInv => MissingHeaderIsMissing
    <2> SUFFICES ASSUME MetaInv, HeaderInv, pc = "parse_error", got = asked
                 PROVE  \E key \in {"protocol", "metaData"} :
                            \A k \in DOMAIN got : FirstLine(body[got[k]], key) = {}
      BY DEF MissingHeaderIsMissing
    <2>1. CASE ~foundProtocol
      BY <2>1 DEF HeaderInv, ProtocolUntilFound
    <2>2. CASE metadata = NoMetadata
      BY <2>2 DEF MetaInv, NoneUntilFound, HeaderLine
    <2> QED
      BY <2>1, <2>2 DEF HeaderInv, HeaderMissing
  <1> QED
    BY <1>1, QueryMetaInv, QueryHeaderInv, PTL

-------------------------------------------------------------------------------
\* What is made of each line, collected over pages

Lines == UNION {ToSet(lines) : lines \in Bodies}

LEMMA BodiesHaveLines ==
  /\ Bodies \subseteq Seq(Lines)
  /\ \A l \in Lines : IsLine(l)
  <1>1. ASSUME NEW lines \in Bodies PROVE lines \in Seq(Lines)
    <2>1. lines \in Seq(ToSet(lines)) /\ ToSet(lines) \subseteq Lines
      BY TableQueryAssumption DEF Lines
    <2>2. lines \in [1..Len(lines) -> Lines] /\ Len(lines) \in Nat
      BY <2>1
    <2> QED
      BY <2>2
  <1>2. ASSUME NEW l \in Lines PROVE IsLine(l)
    <2>1. PICK lines \in Bodies : l \in ToSet(lines)
      BY DEF Lines
    <2>2. PICK i \in DOMAIN lines : l = lines[i]
      BY <2>1 DEF ToSet
    <2> QED
      BY <2>1, <2>2, TableQueryAssumption
  <1> QED
    BY <1>1, <1>2

\* What a query can put into its result.
FileSet == [id : {l.id : l \in Lines}, type : FileTypes, version : Nat \cup {Absent}]

FilesBy == [l \in Lines |-> FilesOf(l)]

LEMMA FilesOfType ==
  ASSUME op \in {"query", "changes"}, NEW l \in Lines
  PROVE  FilesOf(l) \in Seq(FileSet)
  <1> DEFINE versions == Nat \cup {Absent}
  <1>1. l.version \in versions /\ l.inner \in versions /\ Outer(l) \in versions
    BY BodiesHaveLines DEF IsLine, Outer
  <1>2. \A t \in FileTypes, v \in versions : File(l, t, v) \in FileSet
    BY DEF File, FileSet
  <1>3. <<>> \in Seq(FileSet)
    BY EmptySeq
  <1> HIDE DEF versions
  <1>4. \A t \in FileTypes, v \in versions : <<File(l, t, v)>> \in Seq(FileSet)
    BY <1>2
  <1>5. {"", "add", "cdf", "remove"} \subseteq FileTypes
    BY DEF FileTypes
  <1>6. SnapshotFiles(l) \in Seq(FileSet)
    BY <1>1, <1>3, <1>4, <1>5 DEF SnapshotFiles
  <1>7. ChangeFiles(l) \in Seq(FileSet)
    BY <1>1, <1>3, <1>4, <1>5 DEF ChangeFiles
  <1> QED
    BY <1>6, <1>7 DEF FilesOf

\* The result so far is what the lines read so far say, in their order.
FilesInv ==
    /\ op \in {"query", "changes"}
    /\ LinesRead \in Seq(Lines)
    /\ files \in Seq(FileSet)
    /\ files = FlattenSeq(Mapped(FilesBy, LinesRead))

LEMMA PagesHaveLines ==
  ASSUME MetaInv
  PROVE  [i \in DOMAIN got |-> body[got[i]]] \in Seq(Seq(Lines)) /\ LinesRead \in Seq(Lines)
  <1> DEFINE batches == [i \in DOMAIN got |-> body[got[i]]]
  <1>1. \A i \in DOMAIN got : body[got[i]] \in Seq(Lines)
    BY BodiesHaveLines DEF MetaInv
  <1>2. batches \in [1..Len(got) -> Seq(Lines)] /\ Len(got) \in Nat
    BY <1>1 DEF MetaInv
  <1>3. batches \in Seq(Seq(Lines))
    BY <1>2
  <1> QED
    BY <1>3, FlattenType DEF LinesRead

LEMMA ReadPageLines ==
  ASSUME MetaInv, ReadPage
  PROVE  LinesRead' = LinesRead \o body[current] /\ body[current] \in Seq(Lines)
  <1> DEFINE batches == [i \in DOMAIN got |-> body[got[i]]]
  <1>1. /\ got' = Append(got, current) /\ body' = body /\ got \in Seq(Pages)
        /\ current \in Pages
    BY DEF MetaInv, ReadPage, ParsePage, call
  <1>2. body[current] \in Seq(Lines)
    BY BodiesHaveLines DEF MetaInv
  <1>3. [i \in DOMAIN got' |-> body'[got'[i]]] = Append(batches, body[current])
    BY <1>1
  <1>4. FlattenSeq(Append(batches, body[current])) = FlattenSeq(batches) \o body[current]
    BY <1>2, PagesHaveLines, FlattenAppend
  <1> QED
    BY <1>2, <1>3, <1>4 DEF LinesRead

LEMMA ReadPageFiles == MetaInv /\ FilesInv /\ ReadPage => FilesInv'
  <1> SUFFICES ASSUME MetaInv, FilesInv, ReadPage PROVE FilesInv'
    OBVIOUS
  <1> DEFINE lines == body[current]
  <1>1. /\ LinesRead' = LinesRead \o lines /\ lines \in Seq(Lines)
        /\ op' = op /\ files' = files \o ActionsOf(lines)
    BY ReadPageLines DEF ReadPage, call
  <1>2. FilesBy' = FilesBy /\ \A l \in Lines : FilesBy[l] = FilesOf(l)
    BY <1>1 DEF FilesBy, FilesOf
  <1> HIDE DEF lines
  <1>3. ActionsOf(lines) = FlattenSeq(Mapped(FilesBy, lines))
    <2>1. \A i \in DOMAIN lines : FilesBy[lines[i]] = FilesOf(lines[i])
      BY <1>1, <1>2
    <2>2. [i \in DOMAIN lines |-> FilesOf(lines[i])] = Mapped(FilesBy, lines)
      BY <2>1 DEF Mapped
    <2> QED
      BY <2>2 DEF ActionsOf
  <1>4. Collects(FilesBy, Lines, FileSet)
    BY <1>2, FilesOfType DEF FilesInv, Collects
  <1>5. \A s, t \in Seq(Lines) :
           /\ FlattenSeq(Mapped(FilesBy, s)) \in Seq(FileSet)
           /\ FlattenSeq(Mapped(FilesBy, s \o t))
                = FlattenSeq(Mapped(FilesBy, s)) \o FlattenSeq(Mapped(FilesBy, t))
    BY <1>4, CollectConcat
  <1>6. files' = FlattenSeq(Mapped(FilesBy, LinesRead'))
    BY <1>1, <1>3, <1>5 DEF FilesInv
  <1>7. LinesRead' \in Seq(Lines)
    BY <1>1, ConcatProperties DEF FilesInv
  <1>8. files' \in Seq(FileSet)
    BY <1>5, <1>6, <1>7
  <1> QED
    BY <1>1, <1>2, <1>6, <1>7, <1>8 DEF FilesInv

LEMMA OtherFiles ==
  ASSUME FilesInv, UNCHANGED <<call, content>>, got' = got
  PROVE  FilesInv'
  <1>1. op' = op /\ files' = files /\ body' = body
    BY DEF call, content
  <1>2. LinesRead' = LinesRead
    BY <1>1 DEF LinesRead
  <1>3. FilesBy' = FilesBy
    BY <1>1 DEF FilesBy, FilesOf
  <1> QED
    BY <1>1, <1>2, <1>3 DEF FilesInv

LEMMA NextFiles == MetaInv /\ FilesInv /\ [TQNext]_tqVars => FilesInv'
  <1> SUFFICES ASSUME MetaInv, FilesInv, [TQNext]_tqVars PROVE FilesInv'
    OBVIOUS
  <1>1. CASE ReadPage
    BY <1>1, ReadPageFiles
  <1>2. CASE [SendRequest \/ UnreadablePage \/ EndOfPages \/ RefuseRepeat \/ RefuseLong
                \/ FollowLink \/ Returned]_tqVars
    <2>1. UNCHANGED <<call, content>> /\ got' = got
      BY <1>2 DEF tqVars, vars, SendRequest, UnreadablePage, EndOfPages, RefuseRepeat,
                  RefuseLong, FollowLink, Returned, RequestPage, RejectPage, LastPage,
                  GuardRepeat, GuardCap, FollowPage, Terminated
    <2> QED
      BY <2>1, OtherFiles
  <1> QED
    BY <1>1, <1>2 DEF TQNext

LEMMA QueryFilesInv == TQSpec => []FilesInv
  <1>1. TQInit => FilesInv
    <2> SUFFICES ASSUME TQInit PROVE FilesInv
      OBVIOUS
    <2>1. op \in {"query", "changes"} /\ files = <<>> /\ got = <<>>
      BY DEF TQInit, Init
    <2>2. [i \in DOMAIN got |-> body[got[i]]] = <<>>
      BY <2>1
    <2>3. LinesRead = <<>>
      BY <2>2, FlattenEmpty DEF LinesRead
    <2>4. FlattenSeq(Mapped(FilesBy, <<>>)) = <<>>
      BY FlattenEmpty, MappedEmpty
    <2> QED
      BY <2>1, <2>3, <2>4, EmptySeq DEF FilesInv
  <1> QED
    BY <1>1, QueryMetaInv, NextFiles, PTL DEF TQSpec

\* Type correctness of a query: its result holds files of the four types only.
THEOREM QueryTypeCorrect == TQSpec => []TQTypeOK
  <1>1. IInv /\ HeaderInv /\ FilesInv => TQTypeOK
    <2> SUFFICES ASSUME IInv, HeaderInv, FilesInv PROVE TQTypeOK
      OBVIOUS
    <2>1. foundProtocol \in BOOLEAN
      BY DEF HeaderInv
    <2>2. \A i \in DOMAIN files : files[i].type \in FileTypes
      <3>1. \A i \in DOMAIN files : files[i] \in FileSet
        BY DEF FilesInv
      <3>2. \A x \in FileSet : x.type \in FileTypes
        BY DEF FileSet
      <3> QED
        BY <3>1, <3>2
    <2> QED
      BY <2>1, <2>2 DEF TQTypeOK, IInv, FilesInv
  <1> QED
    BY <1>1, QueryIInv, QueryHeaderInv, QueryFilesInv, PTL

-------------------------------------------------------------------------------
\* The whole answer: what is shown of the files is what was asked of the lines.

LEMMA OneMapped ==
  ASSUME NEW f, NEW x
  PROVE  Mapped(f, <<x>>) = <<f[x]>>
  BY DEF Mapped

LEMMA AddedIsShown ==
  ASSUME op = "query", NEW l \in Lines, NEW f, \A x \in FileSet : f[x] = x.id
  PROVE  Added(l) = Mapped(f, FilesOf(l))
  <1>1. FilesOf(l) = SnapshotFiles(l) /\ SnapshotFiles(l) \in Seq(FileSet)
    BY FilesOfType DEF FilesOf
  <1>2. CASE Adds(l)
    <2>1. ASSUME NEW t, SnapshotFiles(l) = <<File(l, t, l.inner)>>
          PROVE  Added(l) = Mapped(f, FilesOf(l))
      <3>1. File(l, t, l.inner) \in FileSet
        BY <1>1, <2>1
      <3>2. f[File(l, t, l.inner)] = l.id
        BY <3>1 DEF File
      <3> QED
        BY <1>1, <1>2, <2>1, <3>2, OneMapped DEF Added
    <2>2. CASE IsFile(l, "add") \/ IsFile(l, "plain")
      <3>1. SnapshotFiles(l) = <<File(l, "", l.inner)>>
        BY <2>2 DEF SnapshotFiles, IsFile
      <3> QED
        BY <2>1, <3>1
    <2>3. CASE l.key = "add"
      <3>1. SnapshotFiles(l) = <<File(l, "add", l.inner)>>
        BY <2>3 DEF SnapshotFiles, IsFile
      <3> QED
        BY <2>1, <3>1
    <2> QED
      BY <1>2, <2>2, <2>3 DEF Adds
  <1>3. CASE ~Adds(l)
    BY <1>1, <1>3, MappedEmpty DEF SnapshotFiles, Adds, Added
  <1> QED
    BY <1>2, <1>3

LEMMA ChangedIsShown ==
  ASSUME op = "changes", NEW l \in Lines, NEW f,
         \A x \in FileSet : f[x] = Change(x.id, x.version, x.type = "remove")
  PROVE  Changed(l) = Mapped(f, FilesOf(l))
  <1>1. FilesOf(l) = ChangeFiles(l) /\ ChangeFiles(l) \in Seq(FileSet)
    BY FilesOfType DEF FilesOf
  <1>2. IsLine(l)
    BY BodiesHaveLines
  <1>3. CASE Changes(l)
    <2>1. PICK t : /\ ChangeFiles(l) = <<File(l, t, CommitOf(l))>>
                   /\ t = "remove" <=> "remove" \in {l.key, l.action}
      <3>1. CASE l.key = "file"
        <4>1. Outer(l) = CommitOf(l)
          BY <1>2, <3>1 DEF IsLine, Outer, CommitOf, Absent
        <4>2. CASE l.action = "add"
          BY <3>1, <4>1, <4>2 DEF ChangeFiles, IsFile
        <4>3. CASE l.action = "cdc"
          BY <3>1, <4>1, <4>3 DEF ChangeFiles, IsFile
        <4>4. CASE l.action = "remove"
          BY <3>1, <4>1, <4>4 DEF ChangeFiles, IsFile
        <4>5. CASE l.action = "plain"
          <5>1. ChangeFiles(l) = <<File(l, "", CommitOf(l))>>
            BY <3>1, <4>1, <4>5 DEF ChangeFiles, IsFile
          <5>2. "" = "remove" <=> "remove" \in {l.key, l.action}
            BY <3>1, <4>5
          <5> QED
            BY <5>1, <5>2
        <4> QED
          BY <1>2, <1>3, <3>1, <4>2, <4>3, <4>4, <4>5 DEF IsLine, Wrapped, Changes
      <3>2. CASE l.key # "file"
        BY <1>2, <1>3, <3>2 DEF IsLine, Changes, ChangeFiles, IsFile, CommitOf
      <3> QED
        BY <3>1, <3>2
    <2>2. File(l, t, CommitOf(l)) \in FileSet
      BY <1>1, <2>1
    <2>3. f[File(l, t, CommitOf(l))]
            = Change(l.id, CommitOf(l), "remove" \in {l.key, l.action})
      BY <2>1, <2>2 DEF File, Change
    <2> QED
      BY <1>1, <1>3, <2>1, <2>3, OneMapped DEF Changed
  <1>4. CASE ~Changes(l)
    <2>1. ChangeFiles(l) = <<>>
      BY <1>2, <1>4 DEF Changes, ChangeFiles, IsFile, IsLine, Wrapped
    <2> QED
      BY <1>1, <1>4, <2>1, MappedEmpty DEF Changed
  <1> QED
    BY <1>3, <1>4

\* A snapshot that is returned is the whole answer's files, in order and once.
THEOREM SnapshotCorrect == TQSpec => []SnapshotIsWholeAnswer
  <1>1. FilesInv /\ NeverPartial => SnapshotIsWholeAnswer
    <2> SUFFICES ASSUME FilesInv, NeverPartial, pc = "ok", op = "query"
                 PROVE  /\ Abstract!IsWholeAnswer(got)
                        /\ [i \in DOMAIN files |-> files[i].id] = Collected(Added, LinesRead)
      BY DEF SnapshotIsWholeAnswer
    <2> DEFINE f == [x \in FileSet |-> x.id]
               h == [l \in Lines |-> Added(l)]
    <2>1. Abstract!IsWholeAnswer(got)
      BY DEF NeverPartial
    <2>2. \A x \in FileSet : f[x] = x.id
      OBVIOUS
    <2>3. [i \in DOMAIN files |-> files[i].id] = Mapped(f, files)
      <3>1. \A i \in DOMAIN files : files[i] \in FileSet
        BY DEF FilesInv
      <3> HIDE DEF f
      <3> QED
        BY <2>2, <3>1 DEF Mapped
    <2>4. [i \in DOMAIN LinesRead |-> Added(LinesRead[i])] = Mapped(h, LinesRead)
      BY DEF Mapped, FilesInv
    <2>5. Collects(FilesBy, Lines, FileSet)
      BY FilesOfType DEF FilesInv, FilesBy, Collects
    <2>6. \A l \in Lines : h[l] = Mapped(f, FilesBy[l])
      BY <2>2, AddedIsShown DEF FilesBy
    <2> HIDE DEF f, h
    <2>7. Mapped(f, FlattenSeq(Mapped(FilesBy, LinesRead))) = FlattenSeq(Mapped(h, LinesRead))
      BY <2>5, <2>6, CollectShown DEF FilesInv
    <2> QED
      BY <2>1, <2>3, <2>4, <2>7 DEF FilesInv, Collected
  <1> QED
    BY <1>1, QueryFilesInv, QueriesPage, NeverPartialCorrect, PTL DEF PagesLikePagedFetch

\* A change feed that is returned is the whole answer's changes, each with its commit
\* and its kind, in order and once.
THEOREM ChangesCorrect == TQSpec => []ChangesAreWholeAnswer
  <1>1. FilesInv /\ NeverPartial => ChangesAreWholeAnswer
    <2> SUFFICES ASSUME FilesInv, NeverPartial, pc = "ok", op = "changes"
                 PROVE  /\ Abstract!IsWholeAnswer(got)
                        /\ [i \in DOMAIN files |->
                              Change(files[i].id, files[i].version, files[i].type = "remove")]
                             = Collected(Changed, LinesRead)
      BY DEF ChangesAreWholeAnswer
    <2> DEFINE f == [x \in FileSet |-> Change(x.id, x.version, x.type = "remove")]
               h == [l \in Lines |-> Changed(l)]
    <2>1. Abstract!IsWholeAnswer(got)
      BY DEF NeverPartial
    <2>2. \A x \in FileSet : f[x] = Change(x.id, x.version, x.type = "remove")
      OBVIOUS
    <2>3. [i \in DOMAIN files |->
              Change(files[i].id, files[i].version, files[i].type = "remove")] = Mapped(f, files)
      <3>1. \A i \in DOMAIN files : files[i] \in FileSet
        BY DEF FilesInv
      <3> HIDE DEF f
      <3> QED
        BY <2>2, <3>1 DEF Mapped
    <2>4. [i \in DOMAIN LinesRead |-> Changed(LinesRead[i])] = Mapped(h, LinesRead)
      BY DEF Mapped, FilesInv
    <2>5. Collects(FilesBy, Lines, FileSet)
      BY FilesOfType DEF FilesInv, FilesBy, Collects
    <2>6. \A l \in Lines : h[l] = Mapped(f, FilesBy[l])
      BY <2>2, ChangedIsShown DEF FilesBy
    <2> HIDE DEF f, h
    <2>7. Mapped(f, FlattenSeq(Mapped(FilesBy, LinesRead))) = FlattenSeq(Mapped(h, LinesRead))
      BY <2>5, <2>6, CollectShown DEF FilesInv
    <2> QED
      BY <2>1, <2>3, <2>4, <2>7 DEF FilesInv, Collected
  <1> QED
    BY <1>1, QueryFilesInv, QueriesPage, NeverPartialCorrect, PTL DEF PagesLikePagedFetch

===============================================================================
