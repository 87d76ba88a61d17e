--------------------------- MODULE ProviderSearch ---------------------------
(***************************************************************************)
(* Which requests a search makes, and what it reports: query.rs,           *)
(* credentials.rs and provider.rs of crates/metadata, the search() and     *)
(* fetch() of both providers, and run_search()/run_fetch() of              *)
(* crates/cli/src/metadata.rs.                                             *)
(*                                                                         *)
(* A query is the set of criteria that are not blank, with the format      *)
(* filter.  A provider's answer is a number of candidates, Broken for a    *)
(* body without its list, or Down for what the client reports.             *)
(***************************************************************************)
EXTENDS Integers, Sequences, FiniteSets
LOCAL INSTANCE FiniteSetsExt

Criteria == {"artist", "album", "catalog", "barcode", "label", "year", "country",
             "release_id", "fingerprint"}

(* What vcw metadata search can put into a query.                          *)
CliCriteria == {"artist", "album", "catalog", "barcode", "label", "year", "country"}

Understands(provider) ==
  IF provider = "discogs"
  THEN Criteria \ {"fingerprint"}
  ELSE Criteria \ {"barcode", "fingerprint"}

(* lucene(), search_url(): the criteria a search turns into terms.         *)
Terms(provider, query) ==
  query.criteria \cap
    (IF provider = "discogs" THEN CliCriteria ELSE CliCriteria \ {"barcode"})

IgnoredBy(provider, query) == query.criteria \ Understands(provider)

NoRequest == [provider |-> "none", terms |-> {}, vinyl |-> FALSE]
Request(provider, query) ==
  [provider |-> provider, terms |-> Terms(provider, query), vinyl |-> query.vinyl]

Failure(error) == [ok |-> FALSE, error |-> error, found |-> 0, sent |-> NoRequest]
Sent(provider, query, error) ==
  [ok |-> FALSE, error |-> error, found |-> 0, sent |-> Request(provider, query)]

Broken == -1
Down   == -2

Smaller(a, b) == IF a <= b THEN a ELSE b

(* authorisation(): Discogs needs a token, and says offline before that.   *)
Unauthorised(provider, world) ==
  provider = "discogs" /\ (world.offline \/ ~world.token)

\* Mutant: only a query without any criterion is refused.
NothingToAskLax(provider, query) == query.criteria = {}

NothingToAsk(provider, query) ==
  query.criteria = {} \/ IgnoredBy(provider, query) = query.criteria

(***************************************************************************)
(* Provider::search of one provider, the network answering `answer`.       *)
(***************************************************************************)
Search(provider, query, world, answer) ==
  CASE NothingToAsk(provider, query) -> Failure("nothing to search")
    [] ~NothingToAsk(provider, query) /\ Unauthorised(provider, world) ->
         Failure(IF world.offline THEN "offline" ELSE "missing credential")
    [] OTHER ->
         IF world.offline THEN Sent(provider, query, "offline")
         ELSE CASE answer = Down   -> Sent(provider, query, "down")
                [] answer = Broken -> Sent(provider, query, "malformed")
                [] OTHER -> [ok |-> TRUE, error |-> "none",
                             found |-> Smaller(answer, query.limit),
                             sent |-> Request(provider, query)]

(* providers(): MusicBrainz is asked before Discogs.                       *)
Chosen(which) ==
  CASE which = "both"        -> <<"musicbrainz", "discogs">>
    [] which = "musicbrainz" -> <<"musicbrainz">>
    [] which = "discogs"     -> <<"discogs">>

Ask(query, which, world, answers) ==
  [i \in DOMAIN Chosen(which) |->
     Search(Chosen(which)[i], query, world, answers[Chosen(which)[i]])]

Found(replies)  == MapThenSumSet(LAMBDA i : replies[i].found, DOMAIN replies)
Failed(replies) == {i \in DOMAIN replies : ~replies[i].ok}

(***************************************************************************)
(* run_search(): a query without a criterion is refused; the report has    *)
(* every candidate and every failure, and the exit code is a failure when  *)
(* there is nothing but failures to show.                                  *)
(***************************************************************************)
RunSearch(query, which, world, answers) ==
  IF query.criteria = {} THEN [exit |-> "usage", replies |-> <<>>]
  ELSE LET replies == Ask(query, which, world, answers)
       IN  [exit |-> IF Found(replies) = 0 /\ Failed(replies) # {}
                     THEN "failure" ELSE "success",
            replies |-> replies]

(***************************************************************************)
(* search_all(): the flag is looked at before each provider, up before the *)
(* `cancelled`-th; a search without candidates reports its first failure.  *)
(***************************************************************************)
SearchAll(query, which, world, answers, cancelled) ==
  LET replies == Ask(query, which, world, answers)
  IN  IF cancelled <= Len(replies) THEN [error |-> "cancelled", found |-> 0, failed |-> {}]
      ELSE IF Found(replies) = 0 /\ Failed(replies) # {}
      THEN [error |-> replies[CHOOSE i \in Failed(replies) :
                                \A j \in Failed(replies) : i <= j].error,
            found |-> 0, failed |-> {}]
      ELSE [error |-> "none", found |-> Found(replies), failed |-> Failed(replies)]

(* run_fetch(): an id of one provider's shape picks it, another is refused. *)
FetchFrom(which, shape) ==
  CASE which # "both"                      -> which
    [] which = "both" /\ shape = "mbid"    -> "musicbrainz"
    [] which = "both" /\ shape = "digits"  -> "discogs"
    [] OTHER                               -> "refused"

(* credentials.rs: Token::new, from_env; a blank variable is none.         *)
TokenOf(variable) == variable \notin {"unset", "blank"}
=============================================================================
