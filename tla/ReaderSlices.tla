---------------------------- MODULE ReaderSlices ----------------------------
(***************************************************************************)
(* What a streaming Reader has of its file (Reader::Slices in              *)
(* media/streaming/media_streaming_reader.cpp): a header, which is the     *)
(* parts that were read before the file was understood, and slices of      *)
(* parts, a few of which stay in memory while the others are put into the  *)
(* cache.  These are operators on a record of them; who calls them when is *)
(* the matter of StreamingReader.                                          *)
(***************************************************************************)
EXTENDS Naturals, SequencesExt

CONSTANTS NumParts,         \* the parts of the file
          PartsInSlice,     \* kPartsInSlice
          SlicesInMemory,   \* kSlicesInMemory
          GoodLimit,        \* kPartsOutsideFirstSliceGood
          MaxPartsInHeader, \* kMaxPartsInHeader
          PreloadAhead,     \* kPreloadPartsAhead
          FullInHeader,     \* TRUE if the file is small enough for the header
          UseCache          \* TRUE if there is a cache for the file

ASSUME FileAssumption ==
    /\ {NumParts, PartsInSlice, SlicesInMemory} \subseteq Nat \ {0}
    /\ {GoodLimit, MaxPartsInHeader, PreloadAhead} \subseteq Nat
    /\ {FullInHeader, UseCache} \subseteq BOOLEAN

Parts == 1..NumParts
SliceOf(p) == (p - 1) \div PartsInSlice + 1
SliceNumbers == 1..SliceOf(NumParts)     \* 0 is the header's number
EntryNumbers == {0} \cup SliceNumbers
InSlice(n) == {p \in Parts : SliceOf(p) = n}

Flags == {"LoadingFromCache", "LoadedFromCache", "ChangedSinceCache"}
Modes == {"Unknown", "Small", "Good", "Full", "NoCache"}     \* HeaderMode
Slice == [parts : SUBSET Parts, flags : SUBSET Flags]
Slices == [header : Slice, data : [SliceNumbers -> Slice], mode : Modes,
           used : Seq(SliceNumbers)]

Unloaded == [parts |-> {}, flags |-> {}]
Loading(slice) == "LoadingFromCache" \in slice.flags
Loaded(slice) == "LoadedFromCache" \in slice.flags
Changed(slice) == "ChangedSinceCache" \in slice.flags

InitSlices ==
    [header |-> [parts |-> {}, flags |-> IF UseCache THEN {"LoadingFromCache"} ELSE {}],
     data |-> [n \in SliceNumbers |-> Unloaded],
     mode |-> IF UseCache THEN "Unknown" ELSE "NoCache",
     used |-> <<>>]                      \* _usedSlices, the latest last

-----------------------------------------------------------------------------
(* Parts and cached entries that come *)

\* addPart, for some parts.
AddParts(slice, parts) ==
    [parts |-> slice.parts \cup parts,
     flags |-> IF Loaded(slice) /\ parts # {}
               THEN slice.flags \cup {"ChangedSinceCache"} ELSE slice.flags]

ProcessCacheData(slice, parts) ==
    [parts |-> slice.parts \cup parts,
     flags |-> (slice.flags \cup {"LoadedFromCache"}) \ {"LoadingFromCache"}]

ComputeIsGoodHeader(parts) ==
    ~FullInHeader /\ Cardinality(parts \ InSlice(1)) <= GoodLimit

HeaderDone(s, fromCache) ==
    IF s.mode # "Unknown" THEN s
    ELSE [s EXCEPT
           !.mode = CASE FullInHeader -> "Full"
                      [] ComputeIsGoodHeader(s.header.parts) -> "Good"
                      [] OTHER -> "Small",
           !.data = IF fromCache THEN @
                    ELSE [n \in SliceNumbers |->
                            [s.data[n] EXCEPT !.flags = @ \cup {"LoadedFromCache"}]]]

\* What of the header belongs into a slice.
HeaderOf(s, n) == s.header.parts \cap InSlice(n)

ApplyHeaderCacheData(s) ==
    CASE s.header.parts = {} \/ s.mode \in {"Small", "Full", "NoCache"} -> s
      [] s.header.parts # {} /\ s.mode = "Good"
           -> [s EXCEPT !.data[1] = AddParts(@, HeaderOf(s, 1))]
      [] s.header.parts # {} /\ s.mode = "Unknown" /\ FullInHeader
           -> HeaderDone(s, TRUE)
      [] OTHER -> HeaderDone([s EXCEPT !.data = [n \in SliceNumbers |->
                                AddParts(@[n], HeaderOf(s, n))]], TRUE)

\* processCacheResult(0, parts): in HeaderMode::Good the first slice was meant,
\* and it is in the same entry.
ProcessHeaderResult(s, parts) ==
    IF IF s.mode = "Good" THEN ~Loading(s.data[1]) ELSE ~Loading(s.header) THEN s
    ELSE LET t == ApplyHeaderCacheData([s EXCEPT !.header = ProcessCacheData(@, parts)])
         IN  IF t.mode # "Good" THEN t
             ELSE [t EXCEPT !.data[1].flags = @ \cup {"LoadingFromCache"}]

\* processCacheResult(sliceNumber, parts): the slice may have been unloaded.
ProcessSliceResult(slice, parts) ==
    IF Loading(slice) THEN ProcessCacheData(slice, parts) ELSE slice

\* The results of the cache, by slice number, in order.
ProcessResults(s, results) ==
    LET t == IF 0 \in DOMAIN results THEN ProcessHeaderResult(s, results[0]) ELSE s
    IN  [t EXCEPT !.data = [n \in SliceNumbers |->
            IF n \in DOMAIN results THEN ProcessSliceResult(@[n], results[n]) ELSE @[n]]]

\* processPart, for some parts.
ProcessParts(s, parts) ==
    IF FullInHeader THEN [s EXCEPT !.header = AddParts(@, parts)]
    ELSE [s EXCEPT !.data = [n \in SliceNumbers |->
                                AddParts(@[n], parts \cap InSlice(n))]]

-----------------------------------------------------------------------------
(* Entries that go into the cache *)

\* serializeAndUnloadSlice: the first slice goes with a good header, which
\* stays in memory.
WithHeader(s, n) == n = 0 \/ (n = 1 /\ s.mode = "Good")
Serialized(s, n) ==
    IF WithHeader(s, n)
    THEN [number |-> 0, parts |-> s.header.parts,
          first |-> IF s.mode = "Good" THEN s.data[1].parts \ s.header.parts ELSE {}]
    ELSE [number |-> n, parts |-> s.data[n].parts, first |-> {}]
Unload(s, n) ==
    IF ~WithHeader(s, n) THEN [s EXCEPT !.data[n] = Unloaded]
    ELSE [s EXCEPT !.header.flags = @ \ {"ChangedSinceCache"},
                   !.data[1] = IF s.mode = "Good" THEN Unloaded ELSE @]

\* Mutant: a changed header does not matter if its slice has not changed.
HeaderForgotten(s, n) == s.mode # "NoCache" /\ Changed(s.data[n])

\* "If no data was changed we should still save first slice, if header data
\* was changed since loading from cache."
NeedToSave(s, n) ==
    /\ s.mode # "NoCache"
    /\ \/ Changed(s.data[n])
       \/ s.mode = "Good" /\ n = 1 /\ Changed(s.header)

NoEntry == [number |-> 0, parts |-> {}, first |-> {}]

\* serializeAndUnloadUnused: what becomes of the slices, and what is saved.
UnloadUnused(s) ==
    LET n == Head(s.used)
        t == [s EXCEPT !.used = Tail(@)]
    IN  CASE s.mode = "Unknown" \/ Len(s.used) <= SlicesInMemory
               -> [slices |-> s, save |-> FALSE, entry |-> NoEntry]
          [] s.mode # "Unknown" /\ Len(s.used) > SlicesInMemory /\ ~Loaded(s.data[n])
               -> [slices |-> t, save |-> FALSE, entry |-> NoEntry]
          [] OTHER -> IF NeedToSave(s, n)
                      THEN [slices |-> Unload(t, n), save |-> TRUE,
                            entry |-> Serialized(s, n)]
                      ELSE [slices |-> [t EXCEPT !.data[n] = Unloaded],
                            save |-> FALSE, entry |-> NoEntry]

\* What the cache has of the file: the header with its slice, and the others.
Put(disk, entry) ==
    IF entry.number = 0
    THEN [disk EXCEPT !.header = entry.parts, !.first = entry.first]
    ELSE [disk EXCEPT !.slices[entry.number] = entry.parts]

\* unloadToCache, as often as there is something to unload.
PutAll(disk, s) ==
    IF s.mode \in {"Unknown", "NoCache"} THEN disk
    ELSE [header |-> IF Changed(s.header) \/ (s.mode = "Good" /\ Changed(s.data[1]))
                     THEN s.header.parts ELSE disk.header,
          first |-> IF s.mode = "Good" /\ (Changed(s.header) \/ Changed(s.data[1]))
                    THEN s.data[1].parts \ s.header.parts
                    ELSE IF Changed(s.header) THEN {} ELSE disk.first,
          slices |-> [n \in SliceNumbers |->
                        IF Changed(s.data[n]) /\ ~WithHeader(s, n)
                        THEN s.data[n].parts ELSE disk.slices[n]]]

-----------------------------------------------------------------------------
(* Reading *)

Touched(want) == {SliceOf(p) : p \in want}
MinOf(S) == CHOOSE x \in S : \A y \in S : x <= y
MaxOf(S) == CHOOSE x \in S : \A y \in S : x >= y

CacheNotLoaded(s, n) == s.mode \notin {"NoCache", "Unknown"} /\ ~Loaded(s.data[n])

\* prepareFill: the parts to load, those that are wanted and some ahead.
ToLoad(have, want, within) ==
    {p \in within \ have : MinOf(want) <= p /\ p <= MaxOf(want) + PreloadAhead}

\* The numbers of a set in order, and what of a sequence is not in a set.
InOrder(S) ==
    CHOOSE s \in [1..Cardinality(S) -> S] : \A i, j \in DOMAIN s : i < j => s[i] < s[j]
Without(s, S) ==
    LET kept == InOrder({i \in DOMAIN s : s[i] \notin S})
    IN  [i \in DOMAIN kept |-> s[kept[i]]]

MarkUsed(used, ns) == Without(used, ns) \o InOrder(ns)

\* The header takes what is read until its mode is known, as far as it goes.
AddToHeader(s, want) ==
    LET fresh == want \ s.header.parts
        room == MaxPartsInHeader - Cardinality(s.header.parts)
    IN  IF s.mode # "Unknown" THEN s
        ELSE [s EXCEPT !.header = AddParts(@,
                {p \in fresh : Cardinality({q \in fresh : q < p}) < room})]

HeaderWontBeFilled(s) ==
    s.mode = "Unknown" /\ Cardinality(s.header.parts) >= MaxPartsInHeader

\* Slices::fill of some adjacent parts: the outcome, what to read from the
\* cache, to put into it and to load.
Filled(s, state, read, unused, load) ==
    [slices |-> s, state |-> state, read |-> read, save |-> unused.save,
     entry |-> unused.entry, load |-> load]
NothingUnused(s) == [slices |-> s, save |-> FALSE, entry |-> NoEntry]

FillFromHeader(s, want) ==
    Filled(s, IF want \subseteq s.header.parts THEN "Success" ELSE "WaitingRemote",
           {}, NothingUnused(s), ToLoad(s.header.parts, want, Parts))

Fill(s, want) ==
    LET slices == Touched(want)
        have == UNION {s.data[n].parts : n \in slices}
        unread == {n \in slices : CacheNotLoaded(s, n)}
        load == UNION {ToLoad(have, want \cap InSlice(n), InSlice(n)) : n \in slices \ unread}
        unused == UnloadUnused(AddToHeader([s EXCEPT !.used = MarkUsed(@, slices)], want))
        read == {n \in unread : ~Loading(s.data[n])}
    IN  CASE s.mode # "NoCache" /\ ~Loaded(s.header)
               -> Filled(s, "WaitingRemote", {}, NothingUnused(s), {})
          [] FullInHeader /\ (s.mode = "NoCache" \/ Loaded(s.header))
               -> FillFromHeader(s, want)
          [] OTHER
               -> IF want \subseteq have
                  THEN Filled(unused.slices, "Success", {}, unused, load)
                  ELSE Filled([s EXCEPT !.data = [n \in SliceNumbers |->
                                 IF n \in read
                                 THEN [s.data[n] EXCEPT !.flags = @ \cup {"LoadingFromCache"}]
                                 ELSE @[n]]],
                              IF unread = {} THEN "WaitingRemote" ELSE "WaitingCache",
                              read, NothingUnused(s), load)

\* partForDownloader, readCacheForDownloaderRequired
HasPart(s, p) == p \in s.header.parts \/ (~FullInHeader /\ p \in s.data[SliceOf(p)].parts)
ReadCacheRequired(s, p) == ~FullInHeader /\ ~Loaded(s.data[SliceOf(p)])
=============================================================================
