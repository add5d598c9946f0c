------------------------------ MODULE Records -------------------------------
(***************************************************************************)
(* What a user has of his own, side by side: drafts, the walks over the    *)
(* paged lists, the session of his browser, the links that verify his      *)
(* address, his files and his marks. They share no state, and a behaviour  *)
(* takes one part.                                                         *)
(***************************************************************************)
EXTENDS Drafts

CONSTANTS
  InitialRows, MaxRows, MaxLimit, MaxChanges, NoCursor,                  \* Paging
  Tabs, Accounts, Sessions, OwnerOf, MaxLoads, MaxRequests, Nobody, NoToken,  \* ClientSession
  Resends, Verifies, Register, MaxTime, Life, NoLink,                    \* EmailVerification
  Files, Users, Admins, Rooms, Requests, NoChannel, NoMessage, NoUser,   \* Attachments
  Messages, PageSize, MaxClicks, MaxOthers                               \* Marks

VARIABLES part,
  kind, place, matches, rows, changes, limit, cursor, pages, seen, phase, steady, moved, skipped,
  cut, broken,
  issued, expired, stored, held, account, requests, loads, left, strayed, overtaken, lived,
  verified, link, madeAt, mailbox, vpc, using, now, pending,
  files, messages, fpc, user, named, wanted, removed,
  pins, bookmarks, made, shown, loaded, markFetch, markCalls, clicks, others, unheard

pvars == <<kind, place, matches, rows, changes, limit, cursor, pages, seen, phase, steady, moved,
           skipped, cut, broken>>
svars == <<issued, expired, stored, held, account, requests, loads, left, strayed, overtaken, lived>>
vvars == <<verified, link, madeAt, mailbox, vpc, using, now, pending>>
fvars == <<files, messages, fpc, user, named, wanted, removed>>
mvars == <<pins, bookmarks, made, shown, loaded, markFetch, markCalls, clicks, others, unheard>>

P == INSTANCE Paging
S == INSTANCE ClientSession WITH cache <- account, calls <- requests, MaxCalls <- MaxRequests
V == INSTANCE EmailVerification WITH pc <- vpc
F == INSTANCE Attachments WITH Channels <- Rooms, pc <- fpc, place <- named
M == INSTANCE Marks WITH fetch <- markFetch, calls <- markCalls, MaxCalls <- MaxRequests

ASSUME RecordsConstants ==
  /\ P!PagingAssumption /\ S!SessionAssumption /\ V!VerificationAssumption
  /\ F!AttachmentsAssumption /\ M!MarksAssumption

RecordsInit ==
  /\ part \in {"drafts", "pages", "session", "links", "files", "marks"}
  /\ Init
  /\ P!Init /\ (part = "pages" \/ (kind = P!ListMessages /\ limit = 0))
  /\ S!Init /\ V!Init /\ F!Init /\ M!Init

RecordsNext ==
  \/ part = "drafts" /\ Next /\ UNCHANGED <<part, pvars, svars, vvars, fvars, mvars>>
  \/ part = "pages" /\ P!Next /\ UNCHANGED <<part, vars, svars, vvars, fvars, mvars>>
  \/ part = "session" /\ S!Next /\ UNCHANGED <<part, vars, pvars, vvars, fvars, mvars>>
  \/ part = "links" /\ V!Next /\ UNCHANGED <<part, vars, pvars, svars, fvars, mvars>>
  \/ part = "files" /\ F!Next /\ UNCHANGED <<part, vars, pvars, svars, vvars, mvars>>
  \/ part = "marks" /\ M!Next /\ UNCHANGED <<part, vars, pvars, svars, vvars, fvars>>

RecordsSpec ==
  RecordsInit /\ [][RecordsNext]_<<part, vars, pvars, svars, vvars, fvars, mvars>>

\* The types of the part that is taken; the others stay as they were
RecordsTypeOK ==
  /\ part = "drafts" => TypeOK
  /\ part = "pages" => P!TypeOK
  /\ part = "session" => S!TypeOK
  /\ part = "links" => V!TypeOK
  /\ part = "files" => F!TypeOK
  /\ part = "marks" => M!TypeOK

\* A walk over a paged list misses and repeats nothing but in known ways
WalksAreComplete == part = "pages" => P!WalksAreComplete

\* The session of a browser and the links that verify an address are what their
\* account has made of them
AccountIsTrue ==
  /\ part = "session" => S!SessionsAreTrue
  /\ part = "links" => V!LinksAreTrue

\* The marks a page shows and the files of a message are those that are stored
MarksAndFilesAreTrue ==
  /\ part = "marks" => M!MarksAreTrue
  /\ part = "files" => F!FilesAreTrue
=============================================================================
