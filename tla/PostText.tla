-------------------------------- MODULE PostText --------------------------------
(***************************************************************************)
(* The text of a post and its facets: the title, the description and the   *)
(* hashtags of a video are joined, cut to a number of graphemes, and every  *)
(* hashtag left in the text is given a facet, an interval of UTF-8 bytes.   *)
(*                                                                         *)
(* A text is a sequence of graphemes, a grapheme a sequence of characters,  *)
(* of a character only its class and its width matter. Three measures meet  *)
(* here: the cut counts graphemes, the scan goes by characters, and the      *)
(* facets count bytes. A tag is taken not to begin with a combining mark.    *)
(***************************************************************************)
EXTENDS Integers, SequencesExt, FiniteSetsExt

CONSTANTS
  VideoEvents,  \* the events whose text is built
  Graphemes     \* graphemes a post may have

Characters == [kind : {"hash", "space", "other"}, bytes : 1..4]
Texts == Seq(Seq(Characters))
VideoTexts == [title : Texts, summary : Texts, content : Texts, tags : Seq(Texts)]

ASSUME PostTextAssumption == Graphemes \in Nat /\ VideoEvents \subseteq VideoTexts

VARIABLE event

Char(kind, bytes) == [kind |-> kind, bytes |-> bytes]
HashSign == <<Char("hash", 1)>>
Blank == <<Char("space", 1)>>

--------------------------------------------------------------------------------
(* build_post_text up to the cut *)

Paragraphs(a, b) == IF a # <<>> /\ b # <<>> THEN a \o <<Blank, Blank>> \o b ELSE a \o b

Description(e) == IF e.summary # <<>> THEN e.summary ELSE e.content

(* "#" before each tag, and a blank between two. *)
Hashtags(tags) ==
  FlattenSeq([i \in DOMAIN tags |->
    (IF i > 1 THEN <<Blank>> ELSE <<>>) \o <<HashSign>> \o tags[i]])

FullText(e) == Paragraphs(Paragraphs(e.title, Description(e)), Hashtags(e.tags))

(* truncate_graphemes *)
Truncate(text) == SubSeq(text, 1, Min({Len(text), Graphemes}))

--------------------------------------------------------------------------------
(* compute_hashtag_facets *)

(* The bytes of the first n characters. *)
Bytes(chars) ==
  LET sum[n \in 0..Len(chars)] == IF n = 0 THEN 0 ELSE sum[n - 1] + chars[n].bytes
  IN sum

(* The position of character i in the text, in bytes; the first is a        *)
(* plausible slip.                                                            *)
CharOffset(chars, i) == i - 1
Offset(chars, i) == Bytes(chars)[i - 1]

(* The first of the positions that satisfy a condition, or the end. *)
FirstOr(positions, end) == IF positions = {} THEN end ELSE Min(positions)

NextOf(chars, kind, from) ==
  FirstOr({i \in from..Len(chars) : chars[i].kind = kind}, Len(chars) + 1)

InWord(chars, i) == i > 1 /\ chars[i - 1].kind # "space"

Facet(chars, first, end) ==
  [byteStart |-> Offset(chars, first), byteEnd |-> Offset(chars, end),
   tag |-> SubSeq(chars, first + 1, end - 1)]

(* From "from" on, look for a "#" at the start of the text or after a space *)
(* and take what follows it up to the next space.                            *)
Scan(chars) ==
  LET scan[from \in 1..(Len(chars) + 1)] ==
        LET hash == NextOf(chars, "hash", from)
            stop == NextOf(chars, "space", hash + 1)
        IN IF hash > Len(chars) THEN <<>>
           ELSE IF InWord(chars, hash) \/ stop = hash + 1 THEN scan[hash + 1]
           ELSE <<Facet(chars, hash, stop)>> \o scan[stop]
  IN scan

HashtagFacets(chars) == Scan(chars)[1]

--------------------------------------------------------------------------------

(* The words of a text that begin with "#" and have more to them, by their  *)
(* first and last characters.                                                *)
Words(chars) ==
  {w \in (DOMAIN chars) \X (DOMAIN chars) :
     /\ w[1] < w[2] /\ chars[w[1]].kind = "hash"
     /\ \A i \in w[1]..w[2] : chars[i].kind # "space"
     /\ w[1] = 1 \/ chars[w[1] - 1].kind = "space"
     /\ w[2] = Len(chars) \/ chars[w[2] + 1].kind = "space"}

(* The tags that the cut left whole: those that end within the limit. *)
WholeTags(e) ==
  {i \in DOMAIN e.tags :
     Len(FullText([e EXCEPT !.tags = SubSeq(e.tags, 1, i)])) <= Graphemes}

(* The facets are the words of the full text that begin with "#", as far as *)
(* the cut left them, at the bytes where the words stand ...                  *)
FacetsAreWords(full, chars) ==
  ToSet(HashtagFacets(chars)) =
    {[byteStart |-> Bytes(full)[w[1] - 1], byteEnd |-> Bytes(full)[Min({w[2], Len(chars)})],
      tag |-> SubSeq(full, w[1] + 1, Min({w[2], Len(chars)}))] :
       w \in {w \in Words(full) : w[1] < Len(chars)}}

(* ... in order and apart. *)
FacetsApart(facets) ==
  \A i \in 1..(Len(facets) - 1) : facets[i].byteEnd < facets[i + 1].byteStart

(* Hashtags survive: a hashtag of the event that the cut left whole is among *)
(* the facets, whatever the title and the description contain (a tag with a  *)
(* space in it, or none, is not one word).                                    *)
WholeTagsFound(e, facets) ==
  \A i \in WholeTags(e) :
    LET tag == FlattenSeq(e.tags[i])
    IN tag # <<>> /\ (\A j \in DOMAIN tag : tag[j].kind # "space")
         => \E j \in DOMAIN facets : facets[j].tag = tag

FacetsAreHashtags ==
  LET full == FlattenSeq(FullText(event))
      chars == FlattenSeq(Truncate(FullText(event)))
  IN /\ FacetsAreWords(full, chars)
     /\ FacetsApart(HashtagFacets(chars))
     /\ WholeTagsFound(event, HashtagFacets(chars))
================================================================================
