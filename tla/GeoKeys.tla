------------------------------ MODULE GeoKeys -------------------------------
(***************************************************************************)
(* The keys of index.cc as strings.  A name is any byte string a client    *)
(* sends; the key builders print it with "%s", so that of each name only   *)
(* its C string gets into a key.  GeoIndex takes the keys of an index for  *)
(* fields of a record; that they are as separate in Redis is what is       *)
(* shown here.                                                             *)
(*                                                                         *)
(* A reference is what a key is built from: [family, index, name], with    *)
(* NoName in the families that have one key for each index.                *)
(***************************************************************************)
EXTENDS Naturals, Sequences

CONSTANTS
  Chars,
  Names,          \* byte strings: the names and cell terms that are used
  ENTITY_DELIM,   \* ':'
  Nul,
  INDEX_META_SUFFIX, INDEX_POLYGONS_SUFFIX, INDEX_CELLS_SUFFIX, POLYGON_CELLINFO_SUFFIX

VARIABLES
  mine, theirs    \* what two commands build keys from

Suffixes == {INDEX_META_SUFFIX, INDEX_POLYGONS_SUFFIX, INDEX_CELLS_SUFFIX, POLYGON_CELLINFO_SUFFIX}

\* No suffix holds a delimiter, and no two are the same.
ASSUME CharsAssumption == ENTITY_DELIM \in Chars /\ Nul \in Chars /\ ENTITY_DELIM # Nul

ASSUME NamesAssumption == Names \subseteq Seq(Chars)

ASSUME SuffixAssumption ==
  /\ Suffixes \subseteq Seq(Chars \ {ENTITY_DELIM, Nul})
  /\ INDEX_META_SUFFIX # INDEX_POLYGONS_SUFFIX
  /\ INDEX_CELLS_SUFFIX # POLYGON_CELLINFO_SUFFIX
  /\ {INDEX_META_SUFFIX, INDEX_POLYGONS_SUFFIX}
       \cap {INDEX_CELLS_SUFFIX, POLYGON_CELLINFO_SUFFIX} = {}

-----------------------------------------------------------------------------
(* Names.                                                                  *)

NulsIn(s) == {k \in 1..Len(s) : s[k] = Nul}

\* What "%s", strchr and strcmp see of a string.
CString(s) ==
  IF NulsIn(s) = {} THEN s
  ELSE SubSeq(s, 1, (CHOOSE m \in NulsIn(s) : \A k \in NulsIn(s) : m <= k) - 1)

Holds(s, ch) == \E k \in 1..Len(s) : s[k] = ch

\* A slip the runs must notice: the search for the delimiter left out.
ValidateEntityNameEmptyOnly(n) == Len(n) # 0

ValidateEntityName(n) == Len(n) # 0 /\ ~Holds(CString(n), ENTITY_DELIM)

-----------------------------------------------------------------------------
(* The key builders.                                                       *)

Families == {"meta", "polygons", "cells", "cellinfo"}

NoName == <<>>

Suffix(family) ==
  CASE family = "meta" -> INDEX_META_SUFFIX
    [] family = "polygons" -> INDEX_POLYGONS_SUFFIX
    [] family = "cells" -> INDEX_CELLS_SUFFIX
    [] family = "cellinfo" -> POLYGON_CELLINFO_SUFFIX

\* The families with one key for each cell or polygon of an index.
Named(family) == family \in {"cells", "cellinfo"}

Delim == <<ENTITY_DELIM>>

Key(r) ==
  LET perIndex == CString(r.index) \o Delim \o Suffix(r.family) IN
  IF Named(r.family) THEN perIndex \o Delim \o CString(r.name) ELSE perIndex

\* What the handlers build keys from: validated names, and cell terms, which
\* hold no delimiter either.
ValidNames == {n \in Names : ValidateEntityName(n)}

References ==
  [family : {"meta", "polygons"}, index : ValidNames, name : {NoName}]
    \cup [family : {"cells", "cellinfo"}, index : ValidNames, name : ValidNames]

\* A slip the runs must notice: KEYS "<index>*".
MatchesPatternLoosely(index, key) ==
  Len(CString(index)) <= Len(key) /\ \A k \in 1..Len(CString(index)) : key[k] = CString(index)[k]

\* KEYS "<index>:*", kTestIndexPattern.
MatchesPattern(index, key) ==
  LET prefix == CString(index) \o Delim IN
  Len(prefix) <= Len(key) /\ \A k \in 1..Len(prefix) : key[k] = prefix[k]

Init == mine \in References /\ theirs = mine

Next == theirs = mine /\ theirs' \in References /\ UNCHANGED mine

Spec == Init /\ [][Next]_<<mine, theirs>>

-----------------------------------------------------------------------------
SameC(m, n) == CString(m) = CString(n)

(* Two commands meet in a key only if they mean the same one: the same     *)
(* family, and names with the same C strings.  No index, polygon or cell   *)
(* can be named so that its key is one of another's.                       *)
KeysTellApart ==
  Key(mine) = Key(theirs) =>
    /\ mine.family = theirs.family /\ SameC(mine.index, theirs.index)
    /\ Named(mine.family) => SameC(mine.name, theirs.name)

(* "<index>:*" matches the keys of that index, all of them, and of no      *)
(* other, be it one whose name begins like it.                             *)
PatternFindsTheIndex ==
  MatchesPattern(mine.index, Key(theirs)) <=> SameC(mine.index, theirs.index)
=============================================================================
