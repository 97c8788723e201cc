----------------------------- MODULE MCServerData -----------------------------
(***************************************************************************)
(* What a server keeps on disk, for TLC, in one run: its folder            *)
(* (ServerFolders), the jars in it (Loadout) and its text files            *)
(* (ServerFiles).  A behaviour takes the steps of one part, chosen at the  *)
(* start, while the others rest in an initial state.                       *)
(***************************************************************************)
EXTENDS ServerFolders, TLC

CONSTANTS
  j1, j2, v1, \* two older jars, one perhaps disabled or updated to the other
  JarNames, Versions, NoJar, Published, Local, Bundles, NoBundle, JarRequests,
  FileNames, StoppedOnly, Jobs, MaxContent

VARIABLES
  part,
  live, disabled, changing, turn, bundles, batches, review, process, abandoned, owned, risked,
  touched, asked,
  files, kept, recent, draft, staging, running, jobs, last

L == INSTANCE Loadout WITH
       Names <- JarNames, MaxRequests <- JarRequests,
       tasks <- changing, server <- process, requests <- asked
F == INSTANCE ServerFiles WITH Names <- FileNames

ASSUME ConstantsOK /\ L!ConstantsOK /\ F!ConstantsOK

jars == <<live, disabled, changing, turn, bundles, batches, review, process, abandoned, owned,
          risked, touched, asked>>
texts == <<files, kept, recent, draft, staging, running, jobs, last>>
mcvars == <<part, vars, jars, texts>>

\* A part that rests has one initial state; there is a text file to begin with.
MCInit ==
  /\ part \in {"folders", "jars", "texts"}
  /\ IF part = "jars"
     THEN \/ /\ live = L!Of({j1}, v1) /\ disabled \in {L!Of({j2}, v1), L!Empty}
             /\ bundles = [b \in Bundles |-> NoBundle]
          \/ /\ live = L!Of({j2}, Published) /\ disabled = L!Empty
             /\ \E b \in Bundles, c \in L!Earlier :
                  /\ c.old = j1 /\ c.sha = v1 /\ c.new = live
                  /\ bundles = [d \in Bundles |-> IF d = b THEN c ELSE NoBundle]
     ELSE live = L!Empty /\ disabled = L!Empty /\ bundles = [b \in Bundles |-> NoBundle]
  /\ Init /\ L!Init /\ F!Init
  /\ part # "folders" => folders = [n \in Names |-> Gone] /\ backups = {}
  /\ IF part = "texts" THEN last > 0 ELSE ~running /\ last = 0

MCNext ==
  \/ part = "folders" /\ Next /\ UNCHANGED <<part, jars, texts>>
  \/ part = "jars" /\ L!Next /\ UNCHANGED <<part, vars, texts>>
  \/ part = "texts" /\ F!Next /\ UNCHANGED <<part, vars, jars>>

MCSpec == MCInit /\ [][MCNext]_mcvars

\* The constants let the sets of the parts share their elements, so that few
\* permutations serve all of them.
Interchangeable == Permutations(Names) \union Permutations(Tasks)

-----------------------------------------------------------------------------
(* Properties of the second and the third part.                            *)

\* No jar the owner has installed is lost.
NoJarIsLost == L!NoJarIsLost

\* What a request answers about the jars it changed is so.
AnswersAreTrue == L!AnswersAreTrue

\* No request loses a content of a file.
NothingIsLost == F!NothingIsLost

\* A saved edit replaced what its owner had opened.
SavesWhatWasReviewed == F!SavesWhatWasReviewed
=============================================================================
