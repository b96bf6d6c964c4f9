--------------------------- MODULE StreamingReader ---------------------------
(***************************************************************************)
(* The Reader of a file that is watched while it is loaded                 *)
(* (media/streaming/media_streaming_reader.cpp), with all who use it: the  *)
(* streaming thread, which reads parts of the file and waits for them      *)
(* (media_streaming_file.cpp), the main thread, on which the parts come,   *)
(* the loader (media_streaming_loader_mtproto.cpp), the cache database,    *)
(* which answers from a thread of its own, and a downloader, which saves   *)
(* the same file through the same Reader                                   *)
(* (storage/streamed_file_downloader.cpp).                                 *)
(*                                                                         *)
(* While streaming is active the streaming thread does the work of the     *)
(* downloader too; else the main thread does.  What is said from the       *)
(* streaming thread to the main thread goes through a queue of calls.      *)
(***************************************************************************)
EXTENDS ReaderSlices, Integers

CONSTANTS RequestParts,      \* kRequestPartsCount, how many a downloader asks for
          RequestsLimit,     \* kDownloaderRequestsLimit, how many are loaded
          MaxWant,           \* bound: the parts of one read
          MaxCalls,          \* bound: how far the main thread falls behind
          MaxEvents          \* bound: plays, downloads, cancels, failures

ASSUME BoundsAssumption ==
    {RequestParts, RequestsLimit, MaxWant, MaxCalls, MaxEvents} \subseteq Nat \ {0}

VARIABLES reader,       \* the Reader, and the semaphore that its waiters share
          thread,       \* the streaming thread
          joining,      \* what the main thread joins the streaming thread for
          downloader,
          loader,       \* the requests for parts
          disk,         \* the entries of the file in the cache database
          events

vars == <<reader, thread, joining, downloader, loader, disk, events>>

Failed == 0             \* LoadedPart::kFailedOffset
Wants == {p..q : p, q \in Parts} \cap {S \in SUBSET Parts : Cardinality(S) \in 1..MaxWant}
Nothing == [n \in {} |-> {}]
And(f, g) == [n \in DOMAIN f \cup DOMAIN g |-> IF n \in DOMAIN f THEN f[n] ELSE g[n]]

\* What the database has under a key.  The first slice comes with a header
\* that is good.
Entry(d, number) ==
    IF number > 0 THEN [n \in {number} |-> d.slices[n]]
    ELSE IF ComputeIsGoodHeader(d.header)
    THEN [n \in {0, 1} |-> IF n = 0 THEN d.header ELSE d.first]
    ELSE [n \in {0} |-> d.header]

NewReader(d) ==
    [slices |-> InitSlices, loading |-> {}, error |-> FALSE,
     loadedParts |-> <<>>, results |-> Nothing,
     reads |-> IF UseCache THEN <<Entry(d, 0)>> ELSE <<>>,
     waiting |-> FALSE, cacheWaiting |-> FALSE, sleeping |-> FALSE,
     token |-> FALSE, stopAsync |-> FALSE, active |-> FALSE,
     calls |-> <<>>, attached |-> FALSE, requests |-> <<>>, acks |-> {},
     offsets |-> <<>>, requested |-> {}, readCache |-> Nothing,
     downloaded |-> FALSE]

NoThread == [pc |-> "none", want |-> {}, interrupted |-> FALSE]
NoDownloader == [on |-> FALSE, first |-> FALSE, saved |-> {}, next |-> 1, asked |-> 0]
EmptyDisk == [header |-> {}, first |-> {}, slices |-> [n \in SliceNumbers |-> {}]]

Init ==
    /\ disk = EmptyDisk
    /\ reader = NewReader(EmptyDisk)
    /\ thread = NoThread
    /\ joining = "none"
    /\ downloader = NoDownloader
    /\ loader = [asked |-> {}, broken |-> {}]
    /\ events = 0

-----------------------------------------------------------------------------
(* What comes into the Reader *)

Call(r, name, ps) ==
    [r EXCEPT !.calls = @ \o [i \in 1..Len(ps) |-> <<name, ps[i]>>]]
Take(s, n) == SubSeq(s, 1, IF n < Len(s) THEN n ELSE Len(s))

Release(r) == [r EXCEPT !.token = TRUE]
WakeFromSleep(r) ==
    IF r.sleeping THEN Release([r EXCEPT !.sleeping = FALSE]) ELSE r
StartWaiting(r) == [r EXCEPT !.waiting = TRUE, !.cacheWaiting = UseCache]
ClearWaiting(r) == [r EXCEPT !.waiting = FALSE, !.cacheWaiting = FALSE]

\* readFromCache, for some slices.
EntryNumber(s, n) == IF n = 1 /\ s.mode = "Good" THEN 0 ELSE n
ReadFromCache(r, d, ns) ==
    LET numbers == InOrder(ns)
    IN  [r EXCEPT !.reads = @ \o [i \in DOMAIN numbers |->
                                    Entry(d, EntryNumber(r.slices, numbers[i]))]]

ProcessCacheResults(r) ==
    [r EXCEPT
       !.results = Nothing,
       !.readCache = [n \in DOMAIN @ |->
            IF ~@[n].known /\ n \in DOMAIN r.results
            THEN [known |-> TRUE, parts |-> r.results[n]] ELSE @[n]],
       !.slices = IF r.error THEN @ ELSE ProcessResults(@, r.results)]

\* Parts that nobody loads any more are dropped.
ProcessLoadedParts(r) ==
    LET good == {p \in r.loading : \E i \in DOMAIN r.loadedParts :
                    /\ r.loadedParts[i] = p
                    /\ \A j \in 1..i : r.loadedParts[j] # Failed}
    IN  IF r.error THEN r
        ELSE [r EXCEPT !.loadedParts = <<>>,
                       !.error = Failed \in ToSet(r.loadedParts),
                       !.loading = @ \ good,
                       !.slices = ProcessParts(@, good)]

\* checkForSomethingMoreReceived, and whether there was something.
Checked(r) == ProcessLoadedParts(ProcessCacheResults(r))
SomethingMore(r) ==
    ~r.error /\ \/ r.results # Nothing
                \/ r.loadedParts # <<>> /\ Failed \notin ToSet(r.loadedParts)

-----------------------------------------------------------------------------
(* Work for the downloader *)

\* enqueueDownloaderOffsets: an offset that is not after the one before it is
\* from another downloader.
Enqueue(r) ==
    LET all == r.offsets \o r.requests
        changes == {i \in Len(r.offsets)..Len(all) - 1 : i > 0 /\ all[i + 1] <= all[i]}
    IN  IF r.requests = <<>> THEN r
        ELSE IF r.offsets = <<>> \/ changes = {}
        THEN [r EXCEPT !.offsets = all, !.requests = <<>>]
        ELSE [r EXCEPT !.offsets = SubSeq(all, MinOf(changes) + 1, Len(all)),
                       !.requests = <<>>, !.readCache = Nothing, !.acks = {}]

CachedForDownloader(r, p) ==
    SliceOf(p) \in DOMAIN r.readCache /\ p \in r.readCache[SliceOf(p)].parts
Ready(r, p) == HasPart(r.slices, p) \/ CachedForDownloader(r, p)

\* checkForDownloaderReadyOffsets: a part is taken out of the read cache.
FireReady(r) ==
    LET n == MaxOf({0} \cup {k \in 1..Len(r.offsets) :
                               \A i \in 1..k : Ready(r, r.offsets[i])})
        ready == SubSeq(r.offsets, 1, n)
        taken == {p \in ToSet(ready) : ~HasPart(r.slices, p)}
    IN  Call([r EXCEPT !.offsets = SubSeq(@, n + 1, Len(@)),
                       !.readCache = [k \in DOMAIN @ |->
                                        [r.readCache[k] EXCEPT !.parts = @ \ taken]]],
             "part", ready)

\* Mutant: what is before a part that is done is taken for done.
PruneTillDone(r) ==
    LET last == MaxOf({0} \cup {i \in DOMAIN r.offsets : r.offsets[i] \in r.acks})
    IN  [r EXCEPT !.acks = {}, !.requested = @ \ r.acks,
                  !.offsets = SubSeq(@, last + 1, Len(@))]

PruneDone(r) ==
    [r EXCEPT !.acks = {}, !.requested = @ \ r.acks,
              !.offsets = Without(@, r.acks)]

PruneReadCache(r) ==
    [r EXCEPT !.readCache = [n \in {k \in DOMAIN @ : k >= SliceOf(r.offsets[1])} |-> @[n]]]

\* sendDownloaderRequests, with downloaderWaitForCachedSlice.
Send(r, d) ==
    LET first == ToSet(Take(r.offsets, RequestsLimit))
        needed == {p \in first : UseCache /\ ReadCacheRequired(r.slices, p)}
        fresh == {SliceOf(p) : p \in needed} \ DOMAIN r.readCache
        unknown == r.slices.mode = "Unknown"
        cache == And(r.readCache, [n \in fresh |-> [known |-> unknown, parts |-> {}]])
        send == {p \in first : p \in needed => cache[SliceOf(p)].known} \ r.requested
        read == IF unknown THEN r ELSE ReadFromCache(r, d, fresh)
    IN  IF UseCache /\ Loading(r.slices.header) THEN r
        ELSE Call([read EXCEPT !.readCache = cache, !.requested = @ \cup send],
                  "load", InOrder(send))

ProcessDownloaderRequests(r, d) ==
    LET s == PruneDone(FireReady(Enqueue(ProcessCacheResults(r))))
    IN  IF s.offsets = <<>> THEN s ELSE Send(PruneReadCache(s), d)

ContinueDownloader(r, d) ==
    IF r.active THEN WakeFromSleep(r) ELSE ProcessDownloaderRequests(r, d)

-----------------------------------------------------------------------------
(* The downloader, on the main thread; rd is the Reader and the downloader *)

Detached(r) == [r EXCEPT !.requests = <<>>, !.attached = FALSE]

\* requestParts
AskForParts(rd) ==
    LET missing == InOrder((rd.d.next..NumParts) \ rd.d.saved)
        ask == Take(missing, RequestParts - rd.d.asked)
    IN  [r |-> ContinueDownloader(
                 [rd.r EXCEPT !.attached = @ \/ ask # <<>>, !.requests = @ \o ask], disk),
         d |-> [rd.d EXCEPT !.asked = @ + Len(ask),
                            !.next = IF rd.d.asked + Len(ask) < RequestParts
                                     THEN NumParts + 1
                                     ELSE IF ask = <<>> THEN @ ELSE Last(ask) + 1]]

\* savePart; the last part ends the download.
Save(rd, p) ==
    LET d == [rd.d EXCEPT !.saved = @ \cup {p},
                          !.asked = IF p < rd.d.next THEN @ - 1 ELSE @]
        r == [rd.r EXCEPT !.acks = @ \cup {p}]
    IN  IF ~rd.d.on \/ p \in rd.d.saved THEN rd
        ELSE IF d.saved = Parts THEN [r |-> Detached(r), d |-> NoDownloader]
        ELSE AskForParts([r |-> r, d |-> d])

Cancelled(rd) == [r |-> Detached(rd.r), d |-> NoDownloader]

\* _loader->parts() in the Reader's constructor.
OnPart(rd, p) ==
    LET told == CASE ~rd.r.attached -> rd
                  [] rd.r.attached /\ p = Failed -> Cancelled(rd)
                  [] OTHER -> Save(rd, p)
        r == IF told.r.active
             THEN [told.r EXCEPT !.loadedParts = Append(@, p)] ELSE told.r
    IN  [told EXCEPT !.r = IF r.waiting THEN Release([r EXCEPT !.waiting = FALSE])
                           ELSE r]

Now == [r |-> reader, d |-> downloader]
Become(rd) == reader' = rd.r /\ downloader' = rd.d

-----------------------------------------------------------------------------
(* The streaming thread *)

\* The call of Reader::fill, up to fillFromSlices.
BeginFill(r, want) ==
    /\ reader' = Checked(r)
    /\ thread' = [thread EXCEPT !.want = want,
                                !.pc = IF reader'.error THEN "wait" ELSE "fill"]

Read ==
    /\ thread.pc = "run" /\ ~thread.interrupted /\ Len(reader.calls) < MaxCalls
    /\ \E want \in Wants : BeginFill(reader, want)
    /\ UNCHANGED <<joining, downloader, loader, disk, events>>

\* fillFromSlices.  A slice that goes into the cache is loaded no more.
FillFromSlices ==
    LET f == Fill(reader.slices, thread.want)
        r == [reader EXCEPT !.slices = f.slices]
        notStreamable == f.state # "Success" /\ HeaderWontBeFilled(f.slices)
        gone == IF ~f.save THEN {}
                ELSE reader.loading \cap InSlice(IF f.entry.number = 0 THEN 1 ELSE f.entry.number)
        kept == reader.loading \ gone
        reading == ReadFromCache(r, disk, f.read)
        cancelled == Call([reading EXCEPT !.loading = kept \cup f.load], "cancel",
                          InOrder(gone \ reader.requested))
        loads == Call(cancelled, "load", InOrder(f.load \ kept))
    IN  /\ thread.pc = "fill"
        /\ thread' = [thread EXCEPT !.pc = IF f.state = "Success" THEN "run" ELSE "recheck"]
        /\ reader' = CASE notStreamable -> StartWaiting([r EXCEPT !.error = TRUE])
                       [] ~notStreamable /\ f.state = "Success" -> ClearWaiting(loads)
                       [] OTHER -> StartWaiting(loads)
        /\ disk' = IF f.save THEN Put(disk, f.entry) ELSE disk
        /\ UNCHANGED <<joining, downloader, loader, events>>

\* Mutant: the thread waits without a look at what came before it said so.
WaitAtOnce ==
    /\ thread.pc = "recheck"
    /\ thread' = [thread EXCEPT !.pc = "wait"]
    /\ UNCHANGED <<reader, joining, downloader, loader, disk, events>>

\* What has come before waiting was set would wake nobody.
Recheck ==
    /\ thread.pc = "recheck"
    /\ LET r == Checked(reader)
       IN  /\ reader' = IF ~SomethingMore(reader) /\ r.error
                        THEN Release(ClearWaiting(r)) ELSE r
           /\ thread' = [thread EXCEPT !.pc = IF SomethingMore(reader) THEN "fill"
                                              ELSE "wait"]
    /\ UNCHANGED <<joining, downloader, loader, disk, events>>

\* The end of the thread: it asks for the end of streaming if nobody else did.
EndThread(r) ==
    /\ thread' = [thread EXCEPT !.pc = "ended", !.want = {}]
    /\ reader' = IF thread.interrupted THEN r
                 ELSE Call([r EXCEPT !.stopAsync = TRUE], "stop", <<0>>)

Acquired == [reader EXCEPT !.token = FALSE]

Wait ==
    /\ thread.pc = "wait" /\ reader.token
    /\ IF thread.interrupted \/ reader.error THEN EndThread(Acquired)
       ELSE BeginFill(Acquired, thread.want)
    /\ UNCHANGED <<joining, downloader, loader, disk, events>>

\* The packets of the header were read.
FileReady ==
    /\ thread.pc = "run" /\ ~thread.interrupted
    /\ reader.slices.mode = "Unknown" /\ reader.slices.header.parts # {}
    /\ reader' = [reader EXCEPT !.slices = HeaderDone(@, FALSE)]
    /\ UNCHANGED <<thread, joining, downloader, loader, disk, events>>

\* Mutant: what was asked for while nobody slept is left to the next wake.
SleepAtOnce(r) ==
    /\ reader' = [r EXCEPT !.sleeping = TRUE]
    /\ thread' = [thread EXCEPT !.pc = "sleep", !.want = {}]

StartSleep(r) ==
    /\ reader' = ProcessDownloaderRequests([r EXCEPT !.sleeping = TRUE], disk)
    /\ thread' = [thread EXCEPT !.pc = "sleep", !.want = {}]

\* There are enough packets.
Sleep ==
    /\ thread.pc = "run" /\ ~thread.interrupted /\ reader.slices.mode # "Unknown"
    /\ StartSleep(reader)
    /\ UNCHANGED <<joining, downloader, loader, disk, events>>

Awake ==
    LET r == [Acquired EXCEPT !.sleeping = FALSE]
    IN  /\ thread.pc = "sleep" /\ reader.token
        /\ \/ thread.interrupted /\ EndThread(r)
           \/ ~thread.interrupted /\ StartSleep(r)
           \/ /\ ~thread.interrupted
              /\ reader' = r
              /\ thread' = [thread EXCEPT !.pc = "run"]
        /\ UNCHANGED <<joining, downloader, loader, disk, events>>

\* The end of the file, an error of the decoder, or an interrupt.
Finish ==
    /\ thread.pc = "run"
    /\ EndThread(reader)
    /\ UNCHANGED <<joining, downloader, loader, disk, events>>

-----------------------------------------------------------------------------
(* The main thread *)

MainIsFree == joining = "none"
Happens == MainIsFree /\ events < MaxEvents /\ events' = events + 1

\* File::start and File::stop: both stop a thread that runs.
Interrupt(why) ==
    /\ joining' = why
    /\ thread' = [thread EXCEPT !.interrupted = @ \/ thread.pc # "none"]
    /\ reader' = IF thread.pc = "none" THEN reader ELSE Release(reader)
    /\ UNCHANGED <<downloader, loader, disk>>

Play == Happens /\ Interrupt("play")
Stop == MainIsFree /\ thread.pc # "none" /\ Interrupt("stop") /\ UNCHANGED events

\* Mutant: an old wish to stop is not forgotten.
StopIsStillWanted(r) == [r EXCEPT !.waiting = FALSE, !.cacheWaiting = FALSE]

Stopped(r) == [r EXCEPT !.stopAsync = FALSE, !.waiting = FALSE, !.cacheWaiting = FALSE]

StopStreaming(r) ==
    ProcessDownloaderRequests([Stopped(r) EXCEPT !.active = FALSE, !.loading = {}], disk)

\* The thread has been joined.  The semaphore goes with the context.
Joined ==
    LET r == [reader EXCEPT !.token = FALSE]
    IN  /\ ~MainIsFree /\ thread.pc \in {"none", "ended"}
        /\ joining' = "none"
        /\ \/ /\ joining = "play"
              /\ reader' = [Stopped(r) EXCEPT !.active = TRUE]
              /\ thread' = [NoThread EXCEPT !.pc = "run"]
           \/ /\ joining = "stop"
              /\ reader' = StopStreaming(r)
              /\ thread' = NoThread
        /\ UNCHANGED <<downloader, loader, disk, events>>

\* File::wake
Wake ==
    /\ MainIsFree /\ thread.pc = "sleep"
    /\ reader' = Release(reader)
    /\ UNCHANGED <<thread, joining, downloader, loader, disk, events>>

StartDownload ==
    /\ Happens /\ ~downloader.on
    /\ Become(AskForParts(
         [r |-> [reader EXCEPT !.downloaded = TRUE],
          d |-> [NoDownloader EXCEPT !.on = TRUE, !.first = ~reader.downloaded]]))
    /\ UNCHANGED <<thread, joining, loader, disk>>

CancelDownload ==
    /\ Happens /\ downloader.on
    /\ Become(Cancelled(Now))
    /\ UNCHANGED <<thread, joining, loader, disk>>

\* Nobody uses the Reader any more, then somebody opens the file again.
ReopenReader ==
    /\ MainIsFree /\ thread.pc = "none" /\ ~downloader.on
    /\ disk' = PutAll(disk, reader.slices)
    /\ reader' = NewReader(disk')
    /\ loader' = [asked |-> {}, broken |-> {}]
    /\ UNCHANGED <<thread, joining, downloader, events>>

\* LoaderMtproto::load, on the main thread: what the downloader has is not
\* loaded again.
Load(p) ==
    IF reader.attached /\ p \in downloader.saved
    THEN /\ loader' = [asked |-> loader.asked \ {p}, broken |-> loader.broken \ {p}]
         /\ Become(OnPart([Now EXCEPT !.r.calls = Tail(@)], p))
    ELSE /\ loader' = [loader EXCEPT !.asked = @ \cup {p}]
         /\ Become([Now EXCEPT !.r.calls = Tail(@)])

\* What the streaming thread, or this one, has asked the main thread to do.
RunCall ==
    /\ MainIsFree /\ reader.calls # <<>>
    /\ LET call == Head(reader.calls)
           rest == [reader EXCEPT !.calls = Tail(@)]
       IN  \/ call[1] = "load" /\ Load(call[2])
           \/ /\ call[1] = "cancel"
              /\ loader' = [asked |-> loader.asked \ {call[2]},
                            broken |-> loader.broken \ {call[2]}]
              /\ Become([Now EXCEPT !.r = rest])
           \/ /\ call[1] = "part"
              /\ Become(Save([Now EXCEPT !.r = rest], call[2]))
              /\ UNCHANGED loader
           \/ /\ call[1] = "check"
              /\ Become([Now EXCEPT !.r = ContinueDownloader(rest, disk)])
              /\ UNCHANGED loader
           \/ /\ call[1] = "stop"
              /\ Become([Now EXCEPT !.r = IF reader.stopAsync THEN StopStreaming(rest)
                                          ELSE rest])
              /\ UNCHANGED loader
    /\ UNCHANGED <<thread, joining, disk, events>>

PartLoaded(p) ==
    /\ MainIsFree /\ p \in loader.asked \ loader.broken
    /\ loader' = [loader EXCEPT !.asked = @ \ {p}]
    /\ Become(OnPart(Now, p))
    /\ UNCHANGED <<thread, joining, disk, events>>

\* The request that failed is still taken for a request that is sent.
LoadFails(p) ==
    /\ Happens /\ p \in loader.asked \ loader.broken
    /\ loader' = [loader EXCEPT !.broken = @ \cup {p}]
    /\ Become(OnPart(Now, Failed))
    /\ UNCHANGED <<thread, joining, disk>>

-----------------------------------------------------------------------------
(* The thread of the cache *)

\* A result that the streaming thread does not wait for is for the downloader.
Deliver(i) ==
    /\ i \in DOMAIN reader.reads
    /\ LET r == [reader EXCEPT !.reads = RemoveAt(@, i),
                               !.results = And(@, reader.reads[i])]
       IN  reader' = IF r.cacheWaiting THEN Release([r EXCEPT !.cacheWaiting = FALSE])
                     ELSE Call(r, "check", <<0>>)
    /\ UNCHANGED <<thread, joining, downloader, loader, disk, events>>

-----------------------------------------------------------------------------
ThreadStep == Read \/ FillFromSlices \/ Recheck \/ Wait \/ FileReady \/ Sleep \/ Awake \/ Finish
UserStep ==
    Play \/ Stop \/ Wake \/ StartDownload \/ CancelDownload \/ ReopenReader
MainStep == Joined \/ RunCall

Next ==
    \/ ThreadStep \/ UserStep \/ MainStep
    \/ \E p \in Parts : PartLoaded(p) \/ LoadFails(p)
    \/ \E i \in DOMAIN reader.reads : Deliver(i)

ThreadIdle ==
    \/ thread.pc \in {"none", "ended"}
    \/ thread.pc \in {"wait", "sleep"} /\ ~reader.token
MainIdle ==
    IF MainIsFree THEN reader.calls = <<>> ELSE thread.pc \notin {"none", "ended"}
LoaderIdle == ~MainIsFree \/ loader.asked \subseteq loader.broken

\* Weak fairness of the threads, the server and the database, written out.
Fairness ==
    /\ []<>ThreadIdle \/ []<><<ThreadStep>>_vars
    /\ []<>MainIdle \/ []<><<MainStep>>_vars
    /\ []<>LoaderIdle \/ []<><<\E p \in Parts : PartLoaded(p)>>_vars
    /\ []<>(reader.reads = <<>>) \/ []<><<Deliver(1)>>_vars

FairSpec == Init /\ [][Next]_vars /\ Fairness
Spec == Init /\ [][Next]_vars

-----------------------------------------------------------------------------
(* Properties *)

Cached == UNION {[S -> SUBSET Parts] : S \in SUBSET EntryNumbers}
ReadCaches ==
    UNION {[S -> [known : BOOLEAN, parts : SUBSET Parts]] : S \in SUBSET SliceNumbers}
Calls == ({"load", "cancel", "part"} \X Parts) \cup ({"check", "stop"} \X {0})
Readers ==
    [slices : Slices, loading : SUBSET Parts, error : BOOLEAN,
     loadedParts : Seq(Parts \cup {Failed}), results : Cached, reads : Seq(Cached),
     waiting : BOOLEAN, cacheWaiting : BOOLEAN, sleeping : BOOLEAN,
     token : BOOLEAN, stopAsync : BOOLEAN, active : BOOLEAN,
     calls : Seq(Calls), attached : BOOLEAN, requests : Seq(Parts), acks : SUBSET Parts,
     offsets : Seq(Parts), requested : SUBSET Parts,
     readCache : ReadCaches, downloaded : BOOLEAN]
Downloaders ==
    [on : BOOLEAN, first : BOOLEAN, saved : SUBSET Parts, next : 1..(NumParts + 1),
     asked : Int]
Threads ==
    [pc : {"none", "run", "fill", "recheck", "wait", "sleep", "ended"},
     want : SUBSET Parts, interrupted : BOOLEAN]
Loaders == [asked : SUBSET Parts, broken : SUBSET Parts]
Disks == [header : SUBSET Parts, first : SUBSET Parts,
          slices : [SliceNumbers -> SUBSET Parts]]

TypeOK ==
    /\ reader \in Readers
    /\ thread \in Threads
    /\ joining \in {"none", "play", "stop"}
    /\ downloader \in Downloaders
    /\ loader \in Loaders
    /\ disk \in Disks
    /\ events \in 0..MaxEvents

\* A header that has changed since it was read goes into the cache with the first
\* slice, which must not have been unloaded without it
\* (serializeAndUnloadFirstSliceNoHeader expects it), and a slice that has changed
\* is not empty (serializeAndUnloadSlice asserts it): the changes of a slice, of
\* the header and of what is in memory agree whenever the Reader may be destroyed.
HeaderCanBeSaved ==
    LET s == reader.slices
    IN  /\ s.mode = "Good" /\ Changed(s.header) => Loaded(s.data[1])
        /\ \A n \in SliceNumbers : Changed(s.data[n]) => s.data[n].parts # {}

\* While the streaming thread runs streaming is active, so the main thread leaves
\* the slices and the work for the downloader to it: a wish to stop streaming that
\* an earlier thread has left does not end the streaming of the next one.
MainLeavesItAlone ==
    thread.pc \notin {"none", "ended"} => reader.active

\* A part that the first downloader of a Reader has asked for and has not got is
\* in one of the queues between them, whatever came from the network, the cache
\* and the streaming thread, in whatever order, and whichever thread did the work.
AskedIsKept ==
    downloader.first =>
        \A p \in 1..downloader.next - 1 :
            p \in Parts \ downloader.saved =>
                \/ p \in ToSet(reader.requests) \cup ToSet(reader.offsets)
                \/ <<"part", p>> \in ToSet(reader.calls)

-----------------------------------------------------------------------------
(* What the safety properties rest on *)

\* Nobody has asked for the end of streaming while its thread runs.
StreamingGoesOn ==
    thread.pc \notin {"none", "ended"} => reader.active /\ ~reader.stopAsync

\* The header is read from the cache once, before any change of it; and only a header that
\* is not the whole file is a good one.
HeaderReadOnce ==
    LET s == reader.slices
    IN  /\ Loading(s.header) => ~Loaded(s.header) /\ ~Changed(s.header)
        /\ s.mode = "Good" => ~FullInHeader

Increasing(s) == \A i, j \in DOMAIN s : i < j => s[i] < s[j]

\* The first downloader of a Reader finds nothing of another one, and what it has asked for
\* stays in the order in which it asked: it is not taken for another downloader's.
FirstIsAlone ==
    /\ ~reader.downloaded =>
          /\ ~downloader.on /\ reader.requests = <<>> /\ reader.offsets = <<>>
          /\ reader.acks = {}
    /\ downloader.first =>
          LET all == reader.offsets \o reader.requests
          IN  /\ downloader.on /\ reader.downloaded
              /\ reader.acks \subseteq downloader.saved
              /\ Increasing(all)
              /\ \A i \in DOMAIN all : all[i] < downloader.next

\* The inductive invariant.
StreamingInvariant ==
    /\ TypeOK
    /\ StreamingGoesOn
    /\ HeaderReadOnce /\ HeaderCanBeSaved
    /\ FirstIsAlone /\ AskedIsKept

-----------------------------------------------------------------------------
(* Liveness *)

\* If nothing fails, a thread that waits for parts, from the cache or from the
\* network, gets them or is interrupted: what comes while it begins to wait wakes it.
EventuallyRead ==
    [](loader.broken = {} /\ ~reader.error)
        => (thread.pc = "wait" ~> thread.pc # "wait")

\* If no request fails, and streaming is over or asleep again and again, the first
\* downloader of a Reader gets the whole file or is cancelled.
EventuallyDownloaded ==
    [](loader.broken = {}) /\ []<>(~reader.active \/ reader.sleeping)
        => (downloader.first ~> ~downloader.first)
=============================================================================
