------------------------------- MODULE Policy -------------------------------
(* Policy documents and their evaluation: crates/strix-iam/src/policy.rs.    *)
(*                                                                           *)
(* A string is a sequence of tokens; a token stands for a piece of text no   *)
(* pattern cuts in two ("s3:", "Get", "Object", a bucket name), and "*" and  *)
(* "?" are the two wildcard characters.  A JSON list of which only the       *)
(* elements matter (actions, resources, principals, conditions) is a set.    *)
EXTENDS Integers, Sequences, FiniteSets, SequencesExt

CONSTANT None       \* Rust's Option::None

ASSUME NoneAssumption == None \notin {"Allow", "Deny"}

-----------------------------------------------------------------------------
(* matches_wildcard: dp[<<i, j>>] says that the first i tokens of the        *)
(* pattern match the first j of the value.                                   *)
Cells(pattern, value) == (0 .. Len(pattern)) \X (0 .. Len(value))

MatchesWildcard(pattern, value) ==
    LET dp[c \in Cells(pattern, value)] ==
            LET i == c[1]
                j == c[2]
            IN  \/ i = 0 /\ j = 0
                \/ /\ i > 0
                   /\ pattern[i] = "*"
                   /\ dp[<<i - 1, j>>] \/ (j > 0 /\ dp[<<i, j - 1>>])
                \/ /\ i > 0 /\ j > 0
                   /\ pattern[i] # "*"
                   /\ pattern[i] \in {"?", value[j]}
                   /\ dp[<<i - 1, j - 1>>]
    IN  dp[<<Len(pattern), Len(value)>>]

(* A Resource is a pair of optional names; its Display is an ARN.            *)
Resource(bucket, key) == [bucket |-> bucket, key |-> key]

ResourceStr(r) ==
    IF r.bucket = None THEN <<"arn:aws:s3:::", "*">>
    ELSE IF r.key = None THEN <<"arn:aws:s3:::", r.bucket>>
    ELSE <<"arn:aws:s3:::", r.bucket, "/", r.key>>

(* The actions and the strings the patterns are matched against.             *)
ActionStr ==
    [CreateBucket |-> <<"s3:", "Create", "Bucket">>,
     DeleteBucket |-> <<"s3:", "Delete", "Bucket">>,
     ListBucket |-> <<"s3:", "List", "Bucket">>,
     HeadBucket |-> <<"s3:", "Head", "Bucket">>,
     GetBucketLocation |-> <<"s3:", "Get", "Bucket", "Location">>,
     GetBucketVersioning |-> <<"s3:", "Get", "Bucket", "Versioning">>,
     PutBucketVersioning |-> <<"s3:", "Put", "Bucket", "Versioning">>,
     GetBucketTagging |-> <<"s3:", "Get", "Bucket", "Tagging">>,
     PutBucketTagging |-> <<"s3:", "Put", "Bucket", "Tagging">>,
     DeleteBucketTagging |-> <<"s3:", "Delete", "Bucket", "Tagging">>,
     GetObject |-> <<"s3:", "Get", "Object">>,
     PutObject |-> <<"s3:", "Put", "Object">>,
     DeleteObject |-> <<"s3:", "Delete", "Object">>,
     HeadObject |-> <<"s3:", "Head", "Object">>,
     CopyObject |-> <<"s3:", "Copy", "Object">>,
     ListMultipartUploadParts |-> <<"s3:", "List", "Multipart", "Parts">>,
     AbortMultipartUpload |-> <<"s3:", "Abort", "Multipart">>,
     ListAllMyBuckets |-> <<"s3:", "List", "All">>,
     ListBucketMultipartUploads |-> <<"s3:", "List", "Bucket", "Multipart">>,
     All |-> <<"s3:", "*">>]

Actions == DOMAIN ActionStr

(* from_operation: the action an operation's name stands for; the callers    *)
(* take Action::All for a name it does not know.                             *)
FromOperation(op) ==
    CASE op \in {"ListBucket", "ListObjects", "ListObjectsV2"} -> "ListBucket"
      [] op \in {"DeleteObject", "DeleteObjects"} -> "DeleteObject"
      [] op = "ListParts" -> "ListMultipartUploadParts"
      [] op = "ListBuckets" -> "ListAllMyBuckets"
      [] op = "ListMultipartUploads" -> "ListBucketMultipartUploads"
      [] op \in Actions \ {"All", "ListBucket", "DeleteObject", "ListAllMyBuckets",
                           "ListMultipartUploadParts", "ListBucketMultipartUploads"} -> op
      [] OTHER -> "All"

-----------------------------------------------------------------------------
(* IAM policies: a sequence of statements.  The effect of a statement is one *)
(* of the two, its actions and its resources are patterns.                   *)
WellFormedStatement(stmt) ==
    /\ stmt.effect \in {"Allow", "Deny"}
    /\ \A p \in stmt.actions \cup stmt.resources : Len(p) \in Nat

MatchesAction(stmt, action) ==
    \E p \in stmt.actions :
        p \in {<<"*">>, <<"s3:", "*">>} \/ MatchesWildcard(p, ActionStr[action])

MatchesResource(stmt, resource) ==
    \E p \in stmt.resources :
        p = <<"*">> \/ MatchesWildcard(p, ResourceStr(resource))

StatementMatches(stmt, action, resource) ==
    MatchesAction(stmt, action) /\ MatchesResource(stmt, resource)

(* The loop of both evaluate functions: the first matching Deny returns, an  *)
(* Allow is remembered.                                                      *)
Decide(matching) ==
    IF \E stmt \in matching : stmt.effect = "Deny" THEN "Deny"
    ELSE IF matching # {} THEN "Allow" ELSE None

Evaluate(policy, action, resource) ==
    Decide({stmt \in ToSet(policy) : StatementMatches(stmt, action, resource)})

AllowStatement(actions, resources) ==
    [effect |-> "Allow", actions |-> actions, resources |-> resources]

AdminPolicy == <<AllowStatement({<<"*">>}, {<<"*">>})>>

-----------------------------------------------------------------------------
(* Conditions.  A JSON value has a kind, a text and, where the text is a     *)
(* number, that number; a context value is a text with an optional number.   *)
AsStr(json) == IF json.kind = "string" THEN json.text ELSE None

(* ConditionContext: what a request says of itself.  is_authorized_by_       *)
(* bucket_policy evaluates every policy in the default context: nothing is   *)
(* known of the request but that it is not secure.                           *)
DefaultContext ==
    [source_ip |-> None,
     values |-> [k \in {"aws:SecureTransport"} |-> [text |-> <<"false">>, num |-> None]]]

(* ConditionContext::get                                                     *)
ContextGet(ctx, key) ==
    IF key = "aws:SourceIp"
    THEN IF ctx.source_ip = None THEN None ELSE ctx.source_ip.text
    ELSE IF key \in DOMAIN ctx.values THEN ctx.values[key].text ELSE None

ContextNumber(ctx, key) ==
    IF key \in DOMAIN ctx.values THEN ctx.values[key].num ELSE None

(* ip_matches_cidr on addresses of ip.width bits: equal after the mask, that *)
(* is after the low bits are cut off.  A range without a length is compared  *)
(* as text.                                                                  *)
IpMatchesCidr(ip, cidr) ==
    IF cidr.length = None THEN ip.text = cidr.text
    ELSE /\ ip.width = cidr.width
         /\ cidr.length <= ip.width
         /\ ip.bits \div 2^(ip.width - cidr.length) = cidr.bits \div 2^(ip.width - cidr.length)

(* One key of one operator of a condition block.                             *)
ConditionHolds(c, ctx) ==
    LET actual == ContextGet(ctx, c.key)
        number == ContextNumber(ctx, c.key)
        expected == AsStr(c.expected)
        like == actual # None /\ expected # None /\ MatchesWildcard(expected, actual)
        inRange == ctx.source_ip # None /\ expected # None
                   /\ IpMatchesCidr(ctx.source_ip, c.expected.cidr)
        numbers == number # None /\ c.expected.num # None
    IN  CASE c.operator = "StringEquals" -> actual = expected
          [] c.operator = "StringNotEquals" -> actual # expected
          [] c.operator = "StringLike" -> like
          [] c.operator = "StringNotLike" -> ~like
          [] c.operator = "IpAddress" -> inRange
          [] c.operator = "NotIpAddress" -> ~inRange
          [] c.operator = "Bool" -> c.expected.kind \in {"string", "bool"} /\ actual = c.expected.text
          [] c.operator = "NumericEquals" -> numbers /\ number = c.expected.num
          [] c.operator = "NumericLessThan" -> numbers /\ number < c.expected.num
          [] c.operator = "NumericGreaterThan" -> numbers /\ number > c.expected.num
          [] c.operator = "Null" -> (actual = None) <=> (c.expected.text = <<"true">>)
          [] OTHER -> FALSE

EvaluateCondition(condition, ctx) == \A c \in condition : ConditionHolds(c, ctx)

-----------------------------------------------------------------------------
(* Bucket policies: statements with a principal and a condition.             *)
Anonymous == [kind |-> "Anonymous", name |-> None]
User(name) == [kind |-> "User", name |-> name]

MatchesPrincipal(stmt, principal) ==
    \/ stmt.principal = {None}                      \* PrincipalSpec::Wildcard
    \/ \E p \in stmt.principal \ {None} :
        \/ p = <<"*">>
        \/ /\ principal.kind = "User"
           /\ \/ p = <<principal.name>>
              \/ Len(p) >= 2 /\ SubSeq(p, Len(p) - 1, Len(p)) = <<"user/", principal.name>>

BucketStatementMatches(stmt, principal, action, resource, ctx) ==
    /\ MatchesPrincipal(stmt, principal)
    /\ MatchesAction(stmt, action)
    /\ MatchesResource(stmt, resource)
    /\ EvaluateCondition(stmt.condition, ctx)

EvaluateBucketPolicy(policy, principal, action, resource, ctx) ==
    Decide({stmt \in ToSet(policy) : BucketStatementMatches(stmt, principal, action, resource, ctx)})

-----------------------------------------------------------------------------
(* What the same questions mean, said without the algorithms.                *)

(* A pattern matches a value iff the value can be cut into one piece per     *)
(* pattern token: any piece for "*", a single token otherwise, which must be *)
(* the pattern's own unless that is "?".  cut[i] is where piece i ends.      *)
Denotes(pattern, value) ==
    \E cut \in [0 .. Len(pattern) -> 0 .. Len(value)] :
        /\ cut[0] = 0
        /\ cut[Len(pattern)] = Len(value)
        /\ \A i \in 1 .. Len(pattern) :
            /\ cut[i - 1] <= cut[i]
            /\ pattern[i] # "*" =>
                cut[i] = cut[i - 1] + 1 /\ pattern[i] \in {"?", value[cut[i]]}

(* A statement says something of a request iff one of its actions and one of *)
(* its resources denote it.                                                  *)
Covers(stmt, action, resource) ==
    /\ \E p \in stmt.actions : Denotes(p, ActionStr[action])
    /\ \E p \in stmt.resources : Denotes(p, ResourceStr(resource))
=============================================================================
