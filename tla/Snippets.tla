------------------------------ MODULE Snippets ------------------------------
(***************************************************************************)
(* The source snippets beside a hunk of a diff: from the source records of *)
(* its two sides to the lines that are painted.  The browser makes ranges  *)
(* of the records (source-snippet-ranges.ts), panels of the ranges         *)
(* (diff-hunk.component.ts), and one request of the panels of a file and   *)
(* pin (snippet.service.ts); the server checks it, reads the working tree  *)
(* or the pinned blob (libs/server/src/lib/snippet,                        *)
(* source-snippet-reader.ts) and answers one snippet per range or an error *)
(* for all of them.                                                        *)
(*                                                                         *)
(* Files are numbers, for they are sorted; sides too, 1 left and 2 right.  *)
(* A record without a line has line 0, one without a last line endLine 0,  *)
(* an unpinned one sha "none".  Reading a file with another error than     *)
(* those named below rejects the request, and is left out.                 *)
(***************************************************************************)
EXTENDS Integers, Sequences, SequencesExt, FiniteSetsExt

CONSTANTS
    Content,    \* <<sha, file>> -> the lines of the file, "none" for the working tree
    Missing,    \* the files and blobs that are not there
    Opened      \* the files the loader opened: the allow-list

-----------------------------------------------------------------------------
(* anchor-definition-site.ts: where the subject of a hunk is defined, told *)
(* by the records of its statements; the earliest of each file, or of each *)
(* file and predicate that changed on the other side.                      *)
Earlier(kept, hit) == hit.line # 0 /\ (kept.line = 0 \/ hit.line < kept.line)

keepEarliest(hits) ==
    FoldLeft(LAMBDA kept, hit : IF Earlier(kept, hit) THEN hit ELSE kept, hits[1], Tail(hits))

(* One hit for each value of a key, by file and line. *)
Collected(hits, key) ==
    LET kept == {keepEarliest(SelectSeq(hits, LAMBDA h : key[h] = k)) : k \in {key[h] : h \in ToSet(hits)}}
        sites == {[file |-> h.file, line |-> h.line, endLine |-> h.endLine, sha |-> h.sha] : h \in kept}
    IN  SetToSortSeq(sites, LAMBDA a, b : a.file < b.file \/ (a.file = b.file /\ a.line < b.line))

dedupeByFileLine(sites) ==
    FoldLeft(LAMBDA out, site :
                IF \E s \in ToSet(out) : s.file = site.file /\ s.line = site.line
                THEN out ELSE Append(out, site),
             << >>, sites)

anchorDefinitionSite(hits, changed) ==
    LET focal == SelectSeq(hits, LAMBDA h : h.predicate \in changed /\ h.line # 0)
    IN  IF focal # << >>
        THEN dedupeByFileLine(Collected(focal, [h \in ToSet(focal) |-> <<h.file, h.predicate>>]))
        ELSE Collected(hits, [h \in ToSet(hits) |-> h.file])

-----------------------------------------------------------------------------
(* source-snippet-ranges.ts: a range is a side's file and the records it    *)
(* was merged from.                                                         *)
Last_(record) == IF record.endLine = 0 THEN record.line ELSE record.endLine
outerStart(range) == Min({r.line : r \in ToSet(range.records)})
outerEnd(range) == Max({Last_(r) : r \in ToSet(range.records)})

toRanges(records, side) ==
    LET placed == SelectSeq(records, LAMBDA r : r.line # 0)
    IN  [i \in DOMAIN placed |->
            [file |-> placed[i].file, side |-> side, records |-> <<placed[i]>>]]

Encloses(a, b) ==
    /\ a.file = b.file /\ a.side = b.side
    /\ outerStart(a) <= outerStart(b) /\ outerEnd(b) <= outerEnd(a)

(* Of ranges that are the same the first stays. *)
dropEnclosed(ranges) ==
    LET dropped == {j \in DOMAIN ranges :
                       \E i \in DOMAIN ranges :
                           /\ i # j /\ Encloses(ranges[i], ranges[j])
                           /\ ~(Encloses(ranges[j], ranges[i]) /\ i > j)}
    IN  [k \in 1..(Len(ranges) - Cardinality(dropped)) |->
            ranges[SetToSortSeq(DOMAIN ranges \ dropped, <)[k]]]

Before(a, b) ==
    \/ a.file < b.file
    \/ a.file = b.file /\ a.side < b.side
    \/ a.file = b.file /\ a.side = b.side /\ outerStart(a) < outerStart(b)

Near(prev, range, context) ==
    /\ prev.file = range.file /\ prev.side = range.side
    /\ outerStart(range) - outerEnd(prev) - 1 <= context

mergeNearby(ranges, context) ==
    FoldLeft(LAMBDA out, range :
                IF out # << >> /\ Near(Last(out), range, context)
                THEN [out EXCEPT ![Len(out)].records = @ \o range.records]
                ELSE Append(out, range),
             << >>, SortSeq(ranges, Before))

reduceRanges(left, right, context) ==
    mergeNearby(dropEnclosed(toRanges(left, 1) \o toRanges(right, 2)), context)

(* diff-hunk.component.ts: a side shows its changed records or, having      *)
(* none, where its anchor is defined.                                       *)
Panels(hunk, context) ==
    LET ofSide(ranges, side) == SelectSeq(ranges, LAMBDA r : r.side = side)
        changed == reduceRanges(hunk.changed[1], hunk.changed[2], context)
        defined == reduceRanges(hunk.site[1], hunk.site[2], context)
        shown(side) == IF ofSide(changed, side) # << >> THEN ofSide(changed, side)
                       ELSE ofSide(defined, side)
    IN  shown(1) \o shown(2)

-----------------------------------------------------------------------------
(* source-snippet-reader.ts: the lines are read once, up to the last that   *)
(* some range needs.                                                        *)
isValidFocal(range) == range.first >= 1 /\ range.last >= range.first

Unavailable(reason) == [kind |-> "unavailable", reason |-> reason]

sliceSnippet(range, buffer, bufferStart, lastSeen, context) ==
    LET lower == Max({1, range.first - context})
        upper == Min({range.last + context, lastSeen})
    IN  CASE ~isValidFocal(range) -> Unavailable("beyond-eof")
          [] isValidFocal(range) /\ lastSeen = 0 -> Unavailable("empty")
          [] isValidFocal(range) /\ lastSeen # 0 /\ range.first > lastSeen ->
                 Unavailable("beyond-eof")
          [] OTHER -> [kind |-> "snippet", startLine |-> lower, focalStart |-> range.first,
                       focalEnd |-> range.last,
                       lines |-> SubSeq(buffer, lower - bufferStart + 1, upper - bufferStart + 1)]

readSnippetsFromLines(lines, ranges, context) ==
    LET valid == {r \in ToSet(ranges) : isValidFocal(r)}
        globalLower == Max({1, Min({r.first - context : r \in valid})})
        globalUpper == Max({r.last + context : r \in valid})
        lastSeen == Min({globalUpper, Len(lines)})
        buffer == SubSeq(lines, globalLower, lastSeen)
    IN  [i \in DOMAIN ranges |->
            IF valid = {} THEN Unavailable("beyond-eof")
            ELSE sliceSnippet(ranges[i], buffer, globalLower, lastSeen, context)]

(* readSourceSnippets of the working tree, readGitFileSnippets of a blob. *)
readByFocalRanges(file, ranges, context, sha) ==
    IF <<sha, file>> \in Missing
    THEN [i \in DOMAIN ranges |-> Unavailable("missing")]
    ELSE readSnippetsFromLines(Content[<<sha, file>>], ranges, context)

(* snippet.service.ts of the server: a spec whose end is before its start   *)
(* is malformed; the first range that could not be read fails them all.     *)
Failure(kind, at) == [kind |-> kind, at |-> at]

readSnippets(request) ==
    LET malformed == {i \in DOMAIN request.ranges : ~isValidFocal(request.ranges[i])}
        results == readByFocalRanges(request.file, request.ranges, request.context, request.sha)
        unread == {i \in DOMAIN results : results[i].kind = "unavailable"}
    IN  CASE malformed # {} -> Failure("range-malformed", Min(malformed))
          [] malformed = {} /\ unread # {} ->
                 IF results[Min(unread)].reason = "missing" THEN Failure("file-read", Min(unread))
                 ELSE Failure("range-out-of-bounds", Min(unread))
          [] OTHER -> [kind |-> "snippets", snippets |-> results]

(* snippet.controller.ts. *)
Get(request) ==
    CASE request.ranges = << >> -> Failure("validation-error", 0)
      [] request.ranges # << >> /\ request.file \notin Opened -> Failure("not-in-allow-list", 0)
      [] OTHER -> readSnippets(request)

-----------------------------------------------------------------------------
(* snippet.service.ts of the browser: the panels that render in one turn    *)
(* and share file, context and pin are one request.                         *)
PinOf(panel) ==
    LET pinned == SelectSeq(panel.records, LAMBDA r : r.sha # "none")
    IN  IF pinned = << >> THEN "none" ELSE pinned[1].sha

FileKey(panel) == <<panel.file, "any pin">>
BatchKey(panel) == <<panel.file, PinOf(panel)>>

Batch(panels, key) == SelectSeq(panels, LAMBDA p : BatchKey(p) = key)

Request(batch, context) ==
    [file |-> batch[1].file, sha |-> PinOf(batch[1]), context |-> context,
     ranges |-> [i \in DOMAIN batch |-> [first |-> outerStart(batch[i]), last |-> outerEnd(batch[i])]]]

structuredOrFallback(failure) ==
    IF failure.kind \in {"file-read", "range-out-of-bounds"} THEN failure
    ELSE Failure("unavailable", 0)

(* What a panel receives: its own snippet, or what befell its batch. *)
Received(panels, i, context) ==
    LET key == BatchKey(panels[i])
        place == Cardinality({j \in 1..i : BatchKey(panels[j]) = key})
        answer == Get(Request(Batch(panels, key), context))
    IN  IF answer.kind = "snippets" THEN answer.snippets[place]
        ELSE structuredOrFallback(answer)

(* source-snippet.component.ts: the lines of a snippet that are painted.   *)
isFocal(records, line) == \E r \in ToSet(records) : r.line # 0 /\ line \in r.line..Last_(r)

Painted(panel, snippet) ==
    {<<n, snippet.lines[n - snippet.startLine + 1]>> :
        n \in {m \in snippet.startLine..(snippet.startLine + Len(snippet.lines) - 1) :
                  isFocal(panel.records, m)}}

-----------------------------------------------------------------------------
(* Properties, of a hunk whose side 2 is unpinned. *)
LinesOf(record) ==
    LET lines == Content[<<record.sha, record.file>>]
    IN  {<<n, lines[n]>> : n \in (record.line..Last_(record)) \cap (1..Len(lines))}

(* Every record that was asked for is painted, all its lines and no other,  *)
(* as they are in the version the record was computed against, in exactly   *)
(* one panel; or its panel says why there is no text, and then some range   *)
(* of the same file and pin really cannot be read.                          *)
RecordsPainted(hunk, context) ==
    LET panels == Panels(hunk, context)
        received == [i \in DOMAIN panels |-> Received(panels, i, context)]
        whole(i) == \A j \in DOMAIN panels :
                       BatchKey(panels[j]) = BatchKey(panels[i]) =>
                           outerStart(panels[j]) <= Len(Content[<<PinOf(panels[i]), panels[i].file>>])
        readable(i) == /\ panels[i].file \in Opened
                       /\ <<PinOf(panels[i]), panels[i].file>> \notin Missing
    IN  /\ \A i \in DOMAIN panels :
              IF readable(i) /\ whole(i)
              THEN /\ received[i].kind = "snippet"
                   /\ Painted(panels[i], received[i]) =
                          UNION {LinesOf(r) : r \in ToSet(panels[i].records)}
              ELSE received[i].kind \in {"file-read", "range-out-of-bounds", "unavailable"}
        /\ \A side \in 1..2 :
              LET shown == IF \E r \in ToSet(hunk.changed[side]) : r.line # 0
                           THEN hunk.changed[side] ELSE hunk.site[side]
              IN  \A r \in {x \in ToSet(shown) : x.line # 0} :
                     Cardinality({i \in DOMAIN panels :
                         /\ panels[i].side = side /\ panels[i].file = r.file
                         /\ \E n \in r.line..Last_(r) : isFocal(panels[i].records, n)}) = 1

(* The definition site of a side names each file that defines the anchor    *)
(* at a line, unless it can point at what changed, and there is nothing     *)
(* earlier to point at.                                                     *)
SiteIsEarliest(hits, changed) ==
    LET sites == ToSet(anchorDefinitionSite(hits, changed))
        focal == {h \in ToSet(hits) : h.predicate \in changed /\ h.line # 0}
    IN  /\ focal = {} => {s.file : s \in sites} = {h.file : h \in ToSet(hits)}
        /\ \A s \in sites :
              \E h \in IF focal = {} THEN ToSet(hits) ELSE focal :
                  /\ h.file = s.file /\ h.line = s.line
                  /\ \A g \in IF focal = {} THEN ToSet(hits) ELSE focal :
                         g.file = h.file /\ (focal # {} => g.predicate = h.predicate)
                         /\ g.line # 0 => h.line # 0 /\ h.line <= g.line
        /\ \A h \in focal : h.file \in {s.file : s \in sites}
=============================================================================
