---------------------------- MODULE ImageCascade ----------------------------
(***************************************************************************)
(* The images of a document.  Reading its text (fs.rs) saves them to the    *)
(* wiki's media folder and refers to them by name; the ingest saves them    *)
(* once more for their hashes (extract_images.rs), has them captioned by a  *)
(* pool of workers with a cache by hash (image-caption-pipeline.ts), and    *)
(* lists them on the page of the source (ingest.ts).  Ingests of a project  *)
(* follow each other; one that was cancelled may still be ending.           *)
(***************************************************************************)
EXTENDS Integers, FiniteSets, Sequences, Functions

CONSTANTS
  Docs,         \* documents, each with a file stem of its own
  Slots,        \* per document what it embeds, a sequence of hashes
  Unusable,     \* those of them that are too small or cannot be decoded
  MaxImages,    \* max_images
  Concurrency,  \* multimodalConfig.concurrency
  Ingests,      \* ingests one after the other, 1..n
  MaxPasses     \* bound: times a document is read or previewed

VARIABLES
  media,        \* per document the hash of each image saved, by number
  textCache,    \* per document the text preprocessing left: its references
  captionCache, \* image-caption-cache.json: for a hash a caption
  page,         \* per document its page: lists of images at its end
  run,          \* per ingest what it is at
  passes

vars == <<media, textCache, captionCache, page, run, passes>>

Nothing == [nothing |-> TRUE]
Waiting == [at |-> "waiting"]

Init ==
  /\ media = [d \in Docs |-> <<>>] /\ textCache = [d \in Docs |-> Nothing]
  /\ captionCache = <<>> /\ page = [d \in Docs |-> <<>>]
  /\ run = [i \in Ingests |-> Waiting] /\ passes = 0

-----------------------------------------------------------------------------
Usable(d) == {j \in DOMAIN Slots[d] : Slots[d][j] \notin Unusable}

\* The number an image is saved under: the count goes up before the save, so
\* one that cannot be saved has its number too.  A mutant: only what was saved
\* counts.
OfSaved(d, j, unsaved) == Cardinality({k \in Usable(d) \ unsaved : k <= j})
NumberOf(d, j, unsaved) == Cardinality({k \in Usable(d) : k <= j})

\* The images a pass comes to before it has max_images, in the order of the
\* document, those that cannot be saved left out.
Reached(d, unsaved) == {j \in Usable(d) \ unsaved : Cardinality({k \in Usable(d) \ unsaved : k < j}) < MaxImages}
References(d, unsaved) == [number : Nat, slot : Nat] \cap {[number |-> NumberOf(d, j, unsaved), slot |-> j] : j \in Reached(d, unsaved)}
Saved(d, unsaved) ==
  LET refs == References(d, unsaved)
      fresh(n) == {r \in refs : r.number = n} IN
  [n \in {r.number : r \in refs} \cup DOMAIN media[d] |->
     IF fresh(n) = {} THEN media[d][n] ELSE Slots[d][(CHOOSE r \in fresh(n) : TRUE).slot]]

Becomes(i, new) == run' = [run EXCEPT ![i] = new]
With(f, x, v) == [y \in DOMAIN f \cup {x} |-> IF y = x THEN v ELSE f[y]]

\* read_file of a document that is not cached: extract_pdf_text, under the
\* lock of PDFium, with whatever cannot be saved this time.
ReadAfresh(d, unsaved) ==
  /\ passes < MaxPasses /\ passes' = passes + 1
  /\ media' = [media EXCEPT ![d] = Saved(d, unsaved)]

\* The preview of a document, or preprocess_file after its import.
Preview(d, unsaved, keep) ==
  /\ textCache[d] = Nothing \/ keep
  /\ ReadAfresh(d, unsaved)
  /\ textCache' = IF keep THEN [textCache EXCEPT ![d] = [refs |-> References(d, unsaved)]] ELSE textCache
  /\ UNCHANGED <<captionCache, page, run>>

-----------------------------------------------------------------------------
Begun(d, refs, hit) ==
  [at |-> "read", doc |-> d, refs |-> refs, hit |-> hit, saved |-> {}, cache |-> <<>>, next |-> 1,
   work |-> {}, got |-> <<>>, fresh |-> 0, cached |-> 0, failed |-> 0, aborted |-> FALSE]

\* autoIngest: the text, and whether the ingest cache knows it.
Start(i, d, hit, unsaved) ==
  /\ run[i] = Waiting
  /\ \A k \in 1..(i - 1) : run[k].at \in {"done"} \/ (run[k].at # "waiting" /\ run[k].aborted)
  /\ IF textCache[d] # Nothing
       THEN /\ unsaved = {} /\ Becomes(i, Begun(d, textCache[d].refs, hit))
            /\ UNCHANGED <<media, passes>>
       ELSE /\ Becomes(i, Begun(d, References(d, unsaved), hit))
            /\ ReadAfresh(d, unsaved)
  /\ UNCHANGED <<textCache, captionCache, page>>

Abort(i) ==
  /\ run[i].at \notin {"waiting", "done"} /\ ~run[i].aborted
  /\ Becomes(i, [run[i] EXCEPT !.aborted = TRUE])
  /\ UNCHANGED <<media, textCache, captionCache, page, passes>>

\* extract_and_save_pdf_images: the first that cannot be saved ends it, and
\* the ingest goes on without images.
ImagesOf(d, unsaved) == IF unsaved = {} THEN References(d, {}) ELSE {}
Extract(i, unsaved) ==
  /\ run[i].at = "read"
  /\ LET d == run[i].doc IN
     /\ media' = [media EXCEPT ![d] = Saved(d, {j \in Usable(d) : \E k \in unsaved : k <= j})]
     /\ Becomes(i, [run[i] EXCEPT !.at = "extracted", !.saved = ImagesOf(d, unsaved)])
  /\ UNCHANGED <<textCache, captionCache, page, passes>>

\* captionMarkdownImages: the references of the text, each name once.  Without
\* any the ingest goes on; multimodal captions may be off.
Urls(i) == {r.number : r \in run[i].refs}
NthUrl(i, n) == CHOOSE u \in Urls(i) : Cardinality({v \in Urls(i) : v <= u}) = n
Caption(i, enabled) ==
  /\ run[i].at = "extracted"
  /\ IF ~enabled \/ run[i].saved = {} THEN Becomes(i, [run[i] EXCEPT !.at = "done"])
     ELSE IF Urls(i) = {} THEN Becomes(i, [run[i] EXCEPT !.at = "captioned"])
     ELSE Becomes(i, [run[i] EXCEPT !.at = "captioning", !.cache = captionCache])
  /\ UNCHANGED <<media, textCache, captionCache, page, passes>>

\* A worker that is free takes the next reference, unless the ingest was
\* cancelled.
Take(i) ==
  /\ run[i].at = "captioning" /\ ~run[i].aborted
  /\ run[i].next <= Cardinality(Urls(i)) /\ Cardinality(run[i].work) < Concurrency
  /\ Becomes(i, [run[i] EXCEPT !.work = @ \cup {[number |-> NthUrl(i, run[i].next)]}, !.next = @ + 1])
  /\ UNCHANGED <<media, textCache, captionCache, page, passes>>

\* processOne: the bytes are read and hashed; a caption in the cache will do.
Look(i, w) ==
  /\ run[i].at = "captioning" /\ w \in run[i].work /\ "hash" \notin DOMAIN w
  /\ LET bytes == media[run[i].doc]
         rest == run[i].work \ {w}
         cache == run[i].cache IN
     IF w.number \notin DOMAIN bytes THEN Becomes(i, [run[i] EXCEPT !.work = rest, !.failed = @ + 1])
     ELSE IF bytes[w.number] \in DOMAIN cache
       THEN Becomes(i, [run[i] EXCEPT !.work = rest, !.got = With(@, w.number, cache[bytes[w.number]]), !.cached = @ + 1])
     ELSE Becomes(i, [run[i] EXCEPT !.work = rest \cup {[number |-> w.number, hash |-> bytes[w.number]]}])
  /\ UNCHANGED <<media, textCache, captionCache, page, passes>>

\* captionImage: the model answers or fails; after an abort streamChat is done
\* with what came so far, and that is an answer like any other.
Asked(i, w) == run[i].at = "captioning" /\ w \in run[i].work /\ "hash" \in DOMAIN w
Answer(i, w, whole) ==
  /\ Asked(i, w) /\ (whole \/ run[i].aborted)
  /\ LET caption == [of |-> w.hash, whole |-> whole] IN
     Becomes(i, [run[i] EXCEPT !.work = @ \ {w}, !.cache = With(@, w.hash, caption),
                               !.got = With(@, w.number, caption), !.fresh = @ + 1])
  /\ UNCHANGED <<media, textCache, captionCache, page, passes>>
\* A mutant: a failure is not counted.
FailedUncounted(i) == run[i].failed
Failed(i) == run[i].failed + 1
AnswerFails(i, w) ==
  /\ Asked(i, w)
  /\ Becomes(i, [run[i] EXCEPT !.work = @ \ {w}, !.failed = Failed(i)])
  /\ UNCHANGED <<media, textCache, captionCache, page, passes>>

\* All workers are done: the cache is written, if anything is new.
PoolEnds(i) ==
  /\ run[i].at = "captioning" /\ run[i].work = {}
  /\ run[i].aborted \/ run[i].next > Cardinality(Urls(i))
  /\ captionCache' = IF run[i].fresh > 0 THEN run[i].cache ELSE captionCache
  /\ Becomes(i, [run[i] EXCEPT !.at = "captioned"])
  /\ UNCHANGED <<media, textCache, page, passes>>

\* injectImagesIntoSourceSummary: the list takes the place of an earlier one.
\* The page may be new by then, written by the model with or without the old
\* list; with a hit of the ingest cache there is no such write, and no look at
\* the signal.
CaptionOf(d, slot) == IF Slots[d][slot] \in DOMAIN captionCache THEN captionCache[Slots[d][slot]] ELSE Nothing
SectionOf(d, saved) == {[number |-> r.number, slot |-> r.slot, alt |-> CaptionOf(d, r.slot)] : r \in saved}
\* A mutant: the list is appended.
Appended(lists, new) == Append(lists, new)
Injected(lists, new) == <<new>>
Inject(i, keeps) ==
  /\ run[i].at = "captioned"
  /\ LET d == run[i].doc
         kept == IF keeps THEN page[d] ELSE <<>>
         new == SectionOf(d, run[i].saved) IN
     page' = [page EXCEPT ![d] = IF run[i].hit THEN Injected(@, new) ELSE IF run[i].aborted THEN @ ELSE Injected(kept, new)]
  /\ Becomes(i, [run[i] EXCEPT !.at = "done"])
  /\ UNCHANGED <<media, textCache, captionCache, passes>>

Next ==
  \/ \E d \in Docs, keep \in BOOLEAN : \E u \in SUBSET Usable(d) : Preview(d, u, keep)
  \/ \E i \in Ingests :
       \/ \E d \in Docs, hit \in BOOLEAN : \E u \in SUBSET Usable(d) : Start(i, d, hit, u)
       \/ Abort(i) \/ PoolEnds(i)
       \/ run[i].at = "read" /\ \E u \in SUBSET Usable(run[i].doc) : Extract(i, u)
       \/ \E enabled \in BOOLEAN : Caption(i, enabled)
       \/ Take(i)
       \/ run[i].at = "captioning" /\ \E w \in run[i].work :
            Look(i, w) \/ AnswerFails(i, w) \/ \E whole \in BOOLEAN : Answer(i, w, whole)
       \/ \E keeps \in BOOLEAN : Inject(i, keeps)

Spec == Init /\ [][Next]_vars

-----------------------------------------------------------------------------
(***************************************************************************)
(* An image stays where it belongs: the file a reference of the text names, *)
(* cached or held by an ingest, has the image that stands there in the      *)
(* document, whatever could not be saved in which pass, and so does the     *)
(* list on the page, of which there is one; an alternative text is of the   *)
(* image it stands for (extract_images.rs:172, :711, ingest.ts:1488).       *)
(***************************************************************************)
Holds(d, r) == r.number \in DOMAIN media[d] => media[d][r.number] = Slots[d][r.slot]
ImagesAreInPlace ==
  \A d \in Docs :
    /\ textCache[d] # Nothing => \A r \in textCache[d].refs : Holds(d, r)
    /\ Len(page[d]) <= 1
    /\ \A list \in Range(page[d]) : \A r \in list : Holds(d, r) /\ (r.alt # Nothing => r.alt.of = Slots[d][r.slot])
    /\ \A i \in Ingests : run[i] # Waiting /\ run[i].doc = d =>
         \A r \in run[i].refs : Holds(d, r) /\ (r.number \in DOMAIN run[i].got => run[i].got[r.number].of = Slots[d][r.slot])

(***************************************************************************)
(* The pool deals with every image once: when it ends without having been   *)
(* cancelled each has a caption or is counted as failed, and the counts it  *)
(* tells are right (image-caption-pipeline.ts:407).                         *)
(***************************************************************************)
ThePoolIsThorough ==
  \A i \in Ingests : run[i] # Waiting =>
    /\ run[i].fresh + run[i].cached = Cardinality(DOMAIN run[i].got)
    /\ run[i].at = "captioned" /\ ~run[i].aborted /\ Urls(i) # {} =>
         run[i].failed = Cardinality(Urls(i) \ DOMAIN run[i].got)

\* Refuted: a caption in the cache is one the model finished
\* (image-caption-pipeline.ts:244, "partial writes don't persist if the user
\* cancels mid-batch").
CaptionsAreWhole == \A hash \in DOMAIN captionCache : captionCache[hash].whole
=============================================================================
