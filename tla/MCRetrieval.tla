----------------------------- MODULE MCRetrieval -----------------------------
(***************************************************************************)
(* What finds and shows what the wiki holds - search, its evaluation, the   *)
(* graphs, the images -, the import of files, the settings, the check for   *)
(* updates and what the requests to models are made of, in one run.  The     *)
(* parts share no state: a behaviour is one of one part (its view), and y1,  *)
(* y2, ... are the variables of that part, in its order; those it has no use *)
(* for are 0.                                                                *)
(***************************************************************************)
EXTENDS Integers, Sequences

VARIABLES view, y1, y2, y3, y4, y5, y6, y7, y8, y9, y10, y11, y12

retrievalVars == <<view, y1, y2, y3, y4, y5, y6, y7, y8, y9, y10, y11, y12>>

\* Two pages with one stem, which share an id; a document of three images, one
\* too small, and one that has an image of it too.
Stems == [p \in {"p", "q", "r"} |-> IF p = "r" THEN "j" ELSE "i"]
Slots == [d \in {"p", "q"} |-> IF d = "p" THEN <<"logo", "dot", "chart">> ELSE <<"logo">>]

\* Files to import: texts and files that are none, two contents of one name.
File(name, content) == [name |-> name, content |-> content]

Fusion == INSTANCE SearchFusion WITH files <- y1, at <- y2, listed <- y3, lexical <- y4,
  tokens <- y5, results <- y6, vector <- y7, graph <- y8, node <- y9, found <- y10, top <- y11,
  removals <- y12, Pages <- <<"p", "q", "r">>, Stem <- Stems, SixDirs <- {"p", "r"},
  MaxScore <- 1, MAX_RESULTS <- 2, MaxRemovals <- 1
Health == INSTANCE SearchHealth WITH records <- y1, builtIn <- y2, at <- y3, next <- y4,
  scenarios <- y5, skipped <- y6, custom <- y7, verdicts <- y8, status <- y9, report <- y10,
  BuiltIn <- {9}, MaxRecords <- 2, MaxRank <- 1
Index == INSTANCE VectorIndex WITH files <- y1, model <- y2, dimension <- y3, rows <- y4,
  jobs <- y5, removing <- y6, writes <- y7, mishaps <- y8, reindexes <- y9, disturbed <- y10,
  complete <- y11, Pages <- {"p", "q"}, Stem <- [p \in {"p", "q"} |-> "i"],
  ChunkCount <- <<2, 1>>, TextSize <- <<1, 2>>, MaxRetries <- 1, MaxWrites <- 2,
  MaxMishaps <- 1, MaxReindexes <- 1
Typed == INSTANCE TypedGraph WITH wiki <- y1, links <- y2, seeds <- y3, queue <- y4,
  scores <- y5, todo <- y6, Order <- <<"a", "b", "c">>, Alias <- "x", MaxLinks <- 3
Cache == INSTANCE GraphCache WITH project <- y1, pages <- y2, dataVersion <- y3,
  cachedGraph <- y4, asker <- y5, switches <- y6, noted <- y7, Projects <- {"x", "y"},
  Pages <- {"p", "q"}, Askers <- {"a", "b"}, MaxWrites <- 2, MaxBumps <- 1, MaxSwitches <- 1
Insights == INSTANCE GraphInsights WITH raw <- y1, edges <- y2, stage <- y3, community <- y4,
  dismissed <- y5, highlighted <- y6, hidden <- y7, total <- y8, sent <- y9, Nodes <- {"a", "b",
  "c", "index"}, Structural <- {"index"}, Types <- {"uses"}, MaxEdges <- 3, MaxHidden <- 1
Cascade == INSTANCE ImageCascade WITH media <- y1, textCache <- y2, captionCache <- y3,
  page <- y4, run <- y5, passes <- y6, Docs <- DOMAIN Slots, Unusable <- {"dot"},
  MaxImages <- 2, Concurrency <- 2, Ingests <- {1, 2}, MaxPasses <- 1
Settings == INSTANCE AppSettings WITH store <- y1, draft <- y2, mem <- y3, disk <- y4, env <- y5,
  chains <- y6, bounds <- y7, Presets <- {"p", "q"}, Values <- {"0", "1"}, Default <- "0",
  MaxEdits <- 2, MaxSaves <- 1, MaxCrashes <- 1
Requests == INSTANCE LlmRequests WITH field <- y1, clean <- y2, mode <- y3, sent <- y4, edits <- y5,
  Bases <- {<<>>, <<"v1">>, <<"anthropic">>}, Budgets <- {500, 4096, 8192},
  MaxEdits <- 2
Updates == INSTANCE UpdateCheck WITH mem <- y1, disk <- y2, writes <- y3, start <- y4,
  persisted <- y5, checks <- y6, world <- y7, told <- y8, counts <- y9,
  Releases <- <<<<0, 3, 9>>, <<0, 3, 10>>, <<0, 4, 0>>>>, MaxRestarts <- 1, MaxAsks <- 1,
  MaxChoices <- 2, MaxFailures <- 0, MaxHours <- 1
Import == INSTANCE SourceImport WITH raw <- y1, cache <- y2, jobs <- y3, imports <- y4,
  importing <- y5, listed <- y6, armed <- y7, deletes <- y8, queued <- y9, told <- y10,
  counts <- y11,
  Kind <- [n \in {"t", "i", "o"} |-> CASE n = "t" -> "text" [] n = "i" -> "image" [] OTHER -> "opaque"],
  Selections <- {<<File("t", 1)>>, <<File("t", 2), File("i", 1)>>, <<File("o", 1)>>, <<File("o", 2)>>},
  Folders <- {[dir |-> "d", files |-> {File("t", 1), File("i", 1)}]},
  Ingested <- {"t"}, MaxCounter <- 2, MaxImports <- 2, MaxDeletes <- 1, MaxMishaps <- 1

NoY12 == y12 = 0
NoY11 == y11 = 0 /\ NoY12
NoY10 == y10 = 0 /\ NoY11
NoY9 == y9 = 0 /\ NoY10
NoY8 == y8 = 0 /\ NoY9
NoY7 == y7 = 0 /\ NoY8
NoY6 == y6 = 0 /\ NoY7

RetrievalInit ==
  \/ view = "SearchFusion" /\ Fusion!Init
  \/ view = "SearchHealth" /\ Health!Init /\ NoY11
  \/ view = "VectorIndex" /\ Index!Init /\ NoY12
  \/ view = "TypedGraph" /\ Typed!Init /\ NoY7
  \/ view = "GraphCache" /\ Cache!Init /\ NoY8
  \/ view = "GraphInsights" /\ Insights!Init /\ NoY10
  \/ view = "ImageCascade" /\ Cascade!Init /\ NoY7
  \/ view = "AppSettings" /\ Settings!Init /\ NoY8
  \/ view = "LlmRequests" /\ Requests!Init /\ NoY6
  \/ view = "UpdateCheck" /\ Updates!Init /\ NoY10
  \/ view = "SourceImport" /\ Import!Init /\ NoY12
RetrievalNext ==
  \/ view = "SearchFusion" /\ Fusion!Next /\ UNCHANGED <<view>>
  \/ view = "SearchHealth" /\ Health!Next /\ UNCHANGED <<view, y11, y12>>
  \/ view = "VectorIndex" /\ Index!Next /\ UNCHANGED <<view, y12>>
  \/ view = "TypedGraph" /\ Typed!Next /\ UNCHANGED <<view, y7, y8, y9, y10,
     y11, y12>>
  \/ view = "GraphCache" /\ Cache!Next /\ UNCHANGED <<view, y8, y9, y10, y11,
     y12>>
  \/ view = "GraphInsights" /\ Insights!Next /\ UNCHANGED <<view, y10, y11, y12>>
  \/ view = "ImageCascade" /\ Cascade!Next /\ UNCHANGED <<view, y7, y8, y9, y10,
     y11, y12>>
  \/ view = "AppSettings" /\ Settings!Next /\ UNCHANGED <<view, y8, y9, y10, y11,
     y12>>
  \/ view = "LlmRequests" /\ Requests!Next /\ UNCHANGED <<view, y6, y7, y8, y9,
     y10, y11, y12>>
  \/ view = "UpdateCheck" /\ Updates!Next /\ UNCHANGED <<view, y10, y11, y12>>
  \/ view = "SourceImport" /\ Import!Next /\ UNCHANGED <<view, y12>>

RetrievalSpec == RetrievalInit /\ [][RetrievalNext]_retrievalVars

-----------------------------------------------------------------------------
\* A page has one row among the results whatever streams found it, what ranks
\* higher in every stream comes first (search.ts), a page ranks by the best way
\* to it (typed-graph.ts), every scenario of an evaluation is run or told to be
\* passed over (search-health.ts); and the request made of an address that was
\* left is one its provider accepts (endpoint-normalizer.ts, llm-providers.ts).
SearchIsSound ==
  /\ view = "SearchFusion" => Fusion!StreamsMeetOnce /\ Fusion!BetterComesFirst
  /\ view = "SearchHealth" => Health!ScenariosAreAccountedFor
  /\ view = "TypedGraph" => Typed!RanksAreBest
  /\ view = "LlmRequests" => Requests!RequestsAreSound

\* What is kept of a page is of that page, and of now: the rows of an id are
\* those of one page at one time (embedding.ts, vectorstore.rs), a graph that is
\* kept has every page as it was when its project was last told of a change
\* (graph-relevance.ts), and the text kept of a source is that of the file
\* (commands/fs.rs).
CopiesAreCurrent ==
  /\ view = "VectorIndex" => Index!TypeOK /\ Index!RowsAreOfOnePage
  /\ view = "GraphCache" => Cache!GraphsAreCurrent
  /\ view = "SourceImport" => Import!TextsAreCurrent

\* A pair of pages has one edge and one insight (wiki-graph.ts,
\* graph-insights.ts); the images of a page are those of its source, where the
\* text has them (extract-source-images.ts), and each is captioned or counted as
\* failed (image-caption-pipeline.ts).
PicturesAreSound ==
  /\ view = "GraphInsights" => Insights!OneEdgePerPair
  /\ view = "ImageCascade" => Cascade!ImagesAreInPlace /\ Cascade!ThePoolIsThorough

\* When nothing is on its way the store, the disk, the draft and the environment
\* agree (project-store.ts); a banner that was closed stays closed
\* (update-banner.tsx).
SettingsSettle ==
  /\ view = "AppSettings" => Settings!SettingsSettle
  /\ view = "UpdateCheck" => Updates!ClosedStaysClosed

\* A save keeps what the user saw when clicking (settings-view.tsx); who switched
\* the check for updates off is not checked for (App.tsx); an import writes over
\* no file, and what is deleted was shown (sources-view.tsx).
SaveIsWhole ==
  [][/\ view = "AppSettings" => Settings!SaveKeepsDraft
     /\ view = "UpdateCheck" => Updates!OffStaysOff
     /\ view = "SourceImport" => Import!FilesAreKept]_retrievalVars
=============================================================================
