--------------------------- MODULE PreScanMessage ---------------------------
(***************************************************************************)
(* FIX::Message as the QuickFIX patch fills it (integration/patches/0001):  *)
(* fields are sorted into header, body and trailer, and a field in the       *)
(* wrong place leaves a mark.  QuickFIX itself is a submodule; what the      *)
(* patch and the shim rely on of it is external here.                       *)
(***************************************************************************)
EXTENDS FrameReference

CONSTANTS
    HeaderTags,     \* isHeaderField without a data dictionary
    TrailerTags     \* isTrailerField without a data dictionary

ASSUME SectionAssumption ==
    /\ HeaderTags \subseteq UInt32 /\ TrailerTags \subseteq UInt32
    /\ HeaderTags \cap TrailerTags = {}

(* static_cast<int>(tag)                                                    *)
INT_MAX == UINT32_MAX \div 2
ToInt(n) == IF n > INT_MAX THEN n - (UINT32_MAX + 1) ELSE n

(* struct PreScanField: offsets into the memory `mem`.                       *)
PreScanField(mem, tag, tagStart, valueStart, valueEnd) ==
    [mem |-> mem, tag |-> tag, tag_start |-> tagStart,
     value_start |-> valueStart, value_end |-> valueEnd]

(* FieldBase: the value is copied; length and checksum are those of the      *)
(* whole field with its <SOH>, whose bytes stand for both.                   *)
FieldBase(pf) ==
    [tag |-> pf.tag,
     value |-> SubSeq(pf.mem, pf.value_start + 1, pf.value_end),
     counted |-> SubSeq(pf.mem, pf.tag_start + 1, pf.value_end + 1)]

-----------------------------------------------------------------------------
(* The message after clear(), with the loop's local `type`.                  *)
Cleared ==
    [header |-> << >>, body |-> << >>, trailer |-> << >>, type |-> "header",
     m_tag |-> 0, m_validStructure |-> TRUE, sorted |-> FALSE]

Section(tag) ==
    IF tag \in HeaderTags THEN "header"
    ELSE IF tag \in TrailerTags THEN "trailer" ELSE "body"

(* A header field after the header, or a body field after the trailer.       *)
Misplaced(m, f) ==
    \/ Section(f.tag) = "header" /\ m.type # "header"
    \/ Section(f.tag) = "body" /\ m.type = "trailer"

(* One round of the loop of setFromPreScan.                                 *)
AppendField(m, f) ==
    LET section == Section(f.tag)
    IN  [m EXCEPT ![section] = Append(@, f),
                  !.type = IF section = "header" THEN @ ELSE section,
                  !.m_tag = IF Misplaced(m, f) /\ @ = 0 THEN f.tag ELSE @,
                  !.m_validStructure = @ /\ ~Misplaced(m, f)]

(* sortFields on the three sections: their order is then fixed by what was   *)
(* appended and in which order.                                             *)
SortFields(m) == [m EXCEPT !.sorted = TRUE]

-----------------------------------------------------------------------------
(* setString without a dictionary and without validation: extractField cuts  *)
(* off one field after the other.  That it converts a tag above INT_MAX as    *)
(* the shim does is an assumption: QuickFIX's code is a submodule.           *)
CanExtract(b) ==
    LET ends == SohOffsets(b)
    IN  /\ b # << >> => b[Len(b)] = Soh
        /\ \A k \in 1 .. Len(ends) :
              /\ EqualsIn(b, ends, k) # {}
              /\ LET equals == Min(EqualsIn(b, ends, k))
                 IN  /\ PieceStart(ends, k) < equals
                     /\ \A j \in PieceStart(ends, k) .. (equals - 1) : IsDigit(ByteAt(b, j))

Extracted(b) ==
    LET ends == SohOffsets(b)
        Field(k) == LET start == PieceStart(ends, k)
                        equals == Min(EqualsIn(b, ends, k))
                    IN  FieldBase(PreScanField(b, ToInt(U32(Decimal(b, start, equals))),
                                               start, equals + 1, ends[k]))
    IN  SubSeq([k \in 1 .. Len(ends) |-> Field(k)], 1, Len(ends))

(* Said without a loop.  The section reached before the n-th of some fields    *)
(* is that of the last one outside the header.                               *)
OutsideHeader(fields, n) == {j \in 1 .. (n - 1) : Section(fields[j].tag) # "header"}

Reached(fields, n) ==
    IF OutsideHeader(fields, n) = {} THEN "header"
    ELSE Section(fields[Max(OutsideHeader(fields, n))].tag)

(* A header field is out of place once the header was left, a body field once *)
(* the trailer was reached.                                                 *)
OutOfPlace(fields) ==
    {n \in 1 .. Len(fields) :
        \/ Section(fields[n].tag) = "header" /\ Reached(fields, n) # "header"
        \/ Section(fields[n].tag) = "body" /\ Reached(fields, n) = "trailer"}

(* The message of some fields, before its sections are sorted: each section    *)
(* keeps its fields in their order.  The mark is the tag of the first field   *)
(* out of place; a tag 0 leaves none.                                        *)
Gathered(fields) ==
    LET In(section) ==
            ElementsAt(fields, {k \in 1 .. Len(fields) : Section(fields[k].tag) = section})
        marked == {n \in OutOfPlace(fields) : fields[n].tag # 0}
    IN  [header |-> In("header"), body |-> In("body"), trailer |-> In("trailer"),
         type |-> Reached(fields, Len(fields) + 1),
         m_tag |-> IF marked = {} THEN 0 ELSE fields[Min(marked)].tag,
         m_validStructure |-> OutOfPlace(fields) = {},
         sorted |-> FALSE]

(* The message of a buffer, as QuickFIX alone parses it.                     *)
Parsed(b) == SortFields(Gathered(Extracted(b)))
=============================================================================
