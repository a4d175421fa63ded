---------------------------- MODULE Negotiation ----------------------------
(***************************************************************************)
(* What a response looks like on the wire: the format of the rows, chosen  *)
(* from the route's FORMAT and the Accept header (ResolveBodyFormat), and  *)
(* the content coding, chosen from Accept-Encoding                         *)
(* (NegotiateContentEncoding, MaybeCompressResponse); and the media ranges *)
(* against which an outbound reply is checked (AcceptsResponseType in      *)
(* src/src/quackapi_http_fetch.cpp).                                       *)
(*                                                                         *)
(* A header is a sequence of tokens [name, weight].  A weight is what      *)
(* stands behind "q=", in tenths, or Absent, or Malformed.                 *)
(***************************************************************************)
EXTENDS Integers, Sequences, FiniteSets, SequencesExt

Absent == -100
Malformed == -200

\* std::stod throws on what is no number; out of range means unacceptable.
ParseEncodingQ(weight) ==
  IF weight = Absent THEN 10 ELSE IF weight \in 0..10 THEN weight ELSE 0

\* atof returns 0 for what is no number, and any other number unchecked.
ParseAcceptQ(weight) ==
  IF weight = Absent THEN 10 ELSE IF weight = Malformed THEN 0 ELSE weight

-----------------------------------------------------------------------------
(* Content coding. *)

\* The last token of a name counts.
Stated(header, name) ==
  LET own == SelectSeq(header, LAMBDA t : t.name = name)
  IN  IF own = <<>> THEN {} ELSE {ParseEncodingQ(Last(own).weight)}

\* Quality of a coding: its own, else that of *, else none.
Quality(header, name) ==
  CHOOSE w \in (IF Stated(header, name) # {} THEN Stated(header, name)
                ELSE IF Stated(header, "*") # {} THEN Stated(header, "*") ELSE {0}) : TRUE

Available(mode, name) == mode \in {"auto", name}

\* Mutant: the comparison of the two qualities is forgotten.
NegotiateContentEncodingZstd(header, mode) ==
  LET quality(name) == IF Available(mode, name) THEN Quality(header, name) ELSE 0
  IN  IF quality("zstd") > 0 THEN "zstd" ELSE IF quality("gzip") > 0 THEN "gzip" ELSE "identity"

NegotiateContentEncoding(header, mode) ==
  LET quality(name) == IF Available(mode, name) THEN Quality(header, name) ELSE 0
      zstd == quality("zstd")
      gzip == quality("gzip")
  IN  IF zstd > 0 /\ zstd >= gzip THEN "zstd" ELSE IF gzip > 0 THEN "gzip" ELSE "identity"

IsAlreadyCompressedContentType(type) == type \in {"image", "audio", "video", "archive", "font"}

\* A response: its status, media type, size, whether it has a Content-Encoding, and
\* the size it would shrink to.
Eligible(r, options) ==
  /\ options.mode # "off"
  /\ r.size > 0 /\ r.size >= options.minBytes
  /\ r.status \notin {204, 304}
  /\ ~r.encoded
  /\ ~IsAlreadyCompressedContentType(r.type)

\* What leaves the server: the coding, and whether Vary names Accept-Encoding.
MaybeCompressResponse(header, r, options) ==
  LET coding == NegotiateContentEncoding(header, options.mode)
  IN  [vary |-> Eligible(r, options),
       coding |-> IF Eligible(r, options) /\ coding # "identity" /\ r.packed < r.size
                  THEN coding ELSE "identity"]

-----------------------------------------------------------------------------
(* Format of the rows. *)

MediaTypeToBodyFormat(media) ==
  CASE media \in {"ndjson", "csv", "parquet", "arrow", "json"} -> {media}
    [] media = "*/*" -> {"json"}
    [] OTHER -> {}

\* One token of the Accept header.
Consider(best, token) ==
  LET q == ParseAcceptQ(token.weight)
      better(f) == \/ ~best.seen \/ q > best.q
                   \/ q = best.q /\ best.format = "json" /\ f # "json"
      formats == {f \in MediaTypeToBodyFormat(token.name) : q > 0 /\ better(f)}
  IN  IF formats = {} THEN best
      ELSE [seen |-> TRUE, q |-> q, format |-> CHOOSE f \in formats : TRUE]

\* The best of the first n tokens.
BestFormat(header) ==
  LET best[n \in 0..Len(header)] ==
        IF n = 0 THEN [seen |-> FALSE, q |-> -1, format |-> "json"] ELSE Consider(best[n - 1], header[n])
  IN  best

ResolveBodyFormat(routeFormat, header) ==
  IF routeFormat # "json" THEN routeFormat ELSE BestFormat(header)[Len(header)].format

-----------------------------------------------------------------------------
(* Media ranges: may the format a caller asks for be sent, given the Accept headers
   the caller supplies? *)

\* How closely a range describes the expected media type; -1 when it does not.
Closeness(range) ==
  CASE range = "expected" -> 2
    [] range = "application/*" -> 1
    [] range = "*/*" -> 0
    [] OTHER -> -1

\* One range of the header.
Weigh(best, token) ==
  LET match == Closeness(token.name)
      quality == ParseEncodingQ(token.weight)
  IN  IF match < 0 \/ match < best.closeness THEN best
      ELSE [closeness |-> match,
            quality |-> IF match > best.closeness THEN quality ELSE Max({best.quality, quality})]

BestMatch(header) ==
  LET best[n \in 0..Len(header)] ==
        IF n = 0 THEN [closeness |-> -1, quality |-> 0] ELSE Weigh(best[n - 1], header[n])
  IN  best

AcceptsResponseType(header) == BestMatch(header)[Len(header)].quality > 0

ApplyResponseAccept(header) == header = <<>> \/ AcceptsResponseType(header)

-----------------------------------------------------------------------------
(* What makes the answers right; q is the question asked. *)

\* The coding is one the client takes, no other the server may use is wanted more,
\* and identity is sent only if nothing else is wanted, or nothing is gained.
CodingIsBest(q, answer) ==
  LET wanted == {c \in {"zstd", "gzip"} : Available(q.options.mode, c) /\ Quality(q.header, c) > 0}
  IN  IF answer.coding = "identity"
      THEN wanted = {} \/ q.response.packed >= q.response.size \/ ~Eligible(q.response, q.options)
      ELSE /\ answer.coding \in wanted
           /\ \A c \in wanted : Quality(q.header, c) =< Quality(q.header, answer.coding)

\* Two clients that get different representations of one response are told apart by
\* caches on the way.
CacheSafe(q, answer) ==
  LET other == MaybeCompressResponse(q.other, q.response, q.options)
  IN  other.coding # answer.coding => other.vary /\ answer.vary

\* Of the formats the client weighs most, the first that is not JSON; JSON if there
\* is none; and the FORMAT of the route before all.
FormatIsBest(q, answer) ==
  LET weight(i) == ParseAcceptQ(q.header[i].weight)
      known == {i \in DOMAIN q.header : MediaTypeToBodyFormat(q.header[i].name) # {} /\ weight(i) > 0}
      top == {i \in known : \A j \in known : weight(j) =< weight(i)}
      other == {i \in top : MediaTypeToBodyFormat(q.header[i].name) # {"json"}}
  IN  CASE q.route # "json" -> answer = q.route
        [] q.route = "json" /\ other = {} -> answer = "json"
        [] q.route = "json" /\ other # {} ->
             \E i \in other : answer = q.header[i].name /\ \A j \in other : i =< j

\* A range that names the type decides over one that covers it, whatever the order;
\* among equals the greatest weight decides.
ClosestDecides(q, answer) ==
  LET matching == {t \in Range(q) : Closeness(t.name) >= 0}
      closest == {t \in matching : \A u \in matching : Closeness(u.name) =< Closeness(t.name)}
  IN  answer <=> (q = <<>> \/ \E t \in closest : ParseEncodingQ(t.weight) > 0)
=============================================================================
