------------------------------- MODULE Routing -------------------------------
(***************************************************************************)
(* Federated routing of one publication: the summaries domains make of     *)
(* their subscriptions, their compression, and the five steps of           *)
(* federated_route.                                                        *)
(*                                                                         *)
(* Embeddings are directions in a plane, in steps of 7.5 degrees: there    *)
(* angles add up exactly, which is the worst case for a radius.  The mean  *)
(* of two unit vectors, normalised, is the direction half way.  Distances  *)
(* are cosine distances in thousandths.                                    *)
(***************************************************************************)
EXTENDS Integers, Sequences, FiniteSets, SequencesExt

CONSTANT Cases   \* what routing may be given, see below

(***************************************************************************)
(* A case: for each domain the clusters, sets of one or two subscriptions; *)
(* the domains whose summary is compressed, and how; the domain that       *)
(* routes; the publication; the threshold; the trust in the other domains  *)
(* and whether the publication's type must stay local.                     *)
(***************************************************************************)
VARIABLES
  query,     \* the case; never changes
  summary,   \* the summary of each domain, empty until it is made
  route      \* the RoutingResult

routingVars == <<query, summary, route>>

Directions == 0..12
CosineDistances == <<0, 9, 34, 76, 134, 207, 293, 391, 500, 617, 741, 869, 1000>>
Gap(a, b) == IF a < b THEN b - a ELSE a - b
Distance(a, b) == CosineDistances[Gap(a, b) + 1]

Largest(S) == CHOOSE x \in S : \A y \in S : y <= x
Smallest(S) == CHOOSE x \in S : \A y \in S : x <= y
Middle(S) == (Largest(S) + Smallest(S)) \div 2

\* create_summary, one cluster: its centre and the radius that covers it.
Summarised(members) ==
  [centroid |-> Middle(members),
   radius |-> Largest({Distance(Middle(members), m) : m \in members})]

\* Broken variant: the radius of a super-cluster is that of its widest member.
SuperRadius_WidestMember(centre, clusters) == Largest({c.radius : c \in clusters})

SuperRadius(centre, clusters) ==
  Largest({c.radius + Distance(centre, c.centroid) : c \in clusters})

\* compress_summary, one group of the k-means.
SuperCluster(clusters) ==
  LET centre == Middle({c.centroid : c \in clusters})
  IN  [centroid |-> centre, radius |-> SuperRadius(centre, clusters)]

CreateSummary(d) == {Summarised(c) : c \in query.clusters[d]}

\* Which clusters k-means merges is up to it: query.groups, per domain.
CompressSummary(d) ==
  {SuperCluster({Summarised(c) : c \in g}) : g \in query.groups[d]}

Summarise(d) ==
  /\ summary[d] = {}
  /\ summary' = [summary EXCEPT ![d] = IF d \in query.compressed THEN CompressSummary(d)
                                       ELSE CreateSummary(d)]
  /\ UNCHANGED <<query, route>>

LocalDistances == {Distance(query.publication, c.centroid) : c \in summary[query.at]}

RouteLocally == LocalDistances # {} /\ Smallest(LocalDistances) <= query.threshold

FederationCandidates ==
  UNION {{<<d, Distance(query.publication, c.centroid)>> :
            c \in {k \in summary[d] :
                     Distance(query.publication, k.centroid) < k.radius + query.threshold}} :
         d \in DOMAIN summary \ {query.at}}

GovernanceFilter(candidates) ==
  {c \in candidates : ~query.localOnly /\ query.trust[c[1]] >= 50}

Unrouted == [matched |-> FALSE, domain |-> "none", forwarded |-> FALSE]
NoMatch == [matched |-> FALSE, domain |-> query.at, forwarded |-> FALSE]

FederatedRoute ==
  /\ route = Unrouted
  /\ \A d \in DOMAIN summary : summary[d] # {}
  /\ LET left == GovernanceFilter(FederationCandidates)
     IN  \/ RouteLocally /\ route' = [NoMatch EXCEPT !.matched = TRUE]
         \/ /\ ~RouteLocally /\ left # {}
            /\ \E c \in {x \in left : \A y \in left : x[2] <= y[2]} :
                 route' = [matched |-> TRUE, domain |-> c[1], forwarded |-> TRUE]
         \/ ~RouteLocally /\ left = {} /\ route' = NoMatch
  /\ UNCHANGED <<query, summary>>

\* Clusters have members, which are directions; every cluster of a compressed
\* summary is in a group.
ASSUME CasesAssumption ==
  \A q \in Cases :
    /\ q.threshold \in Nat \ {0}
    /\ \A d \in DOMAIN q.clusters :
         \A c \in q.clusters[d] : c # {} /\ c \subseteq Directions
    /\ \A d \in q.compressed \cap DOMAIN q.clusters : q.clusters[d] = UNION q.groups[d]

RoutingInit ==
  /\ query \in Cases
  /\ summary = [d \in DOMAIN query.clusters |-> {}]
  /\ route = Unrouted

RoutingNext ==
  \/ \E d \in DOMAIN summary : Summarise(d)
  \/ FederatedRoute

RoutingSpec == RoutingInit /\ [][RoutingNext]_routingVars

Permitted(d) == ~query.localOnly /\ query.trust[d] >= 50
Subscriptions(d) == UNION query.clusters[d]

\* A compressed summary whose radii all stay below the threshold.
IsNarrow(d) == \A c \in summary[d] : c.radius < query.threshold

\* A publication that is exactly what a permitted domain subscribed to finds a
\* match: always when the domain sent its summary as it was, and when it sent it
\* compressed as long as the radii of its super-clusters are below the threshold.
\* Cosine distance is no metric and radii added up may fall short of a member, but
\* never by more than themselves.  (federated_route, compress_summary)
SubscribersAreReachable ==
  route # Unrouted /\ (\E d \in DOMAIN summary \ {query.at} :
                       /\ Permitted(d) /\ query.publication \in Subscriptions(d)
                       /\ d \in query.compressed => IsNarrow(d))
    => route.matched
=============================================================================
