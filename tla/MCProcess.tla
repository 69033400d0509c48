------------------------------ MODULE MCProcess ------------------------------
(* Programs of one and two segments, well formed and not, on six frames.  *)
EXTENDS Process

MCFrames == 2..7
MCStarts == {2, 4, 6}

H(offset, vaddr, filesz, memsz, flags) ==
    [place |-> "inside", p_type |-> "PT_LOAD", p_flags |-> flags, p_offset |-> offset,
     p_vaddr |-> vaddr, p_filesz |-> filesz, p_memsz |-> memsz]

\* Code; data with cleared cells in its last page; data cut by the file's end; an
\* address inside a page; a segment past the end, too large for its memory, and
\* empty.
Segments ==
    {H(0, 0, 3, 3, {"x"}), H(1, 4, 1, 3, {"w"}), H(3, 4, 3, 3, {}),
     H(0, 1, 2, 2, {"w"}), H(5, 2, 0, 2, {}), H(0, 2, 3, 2, {}), H(0, 2, 0, 0, {})}
Odd == {[H(0, 0, 1, 1, {}) EXCEPT !.place = "outside"], [H(0, 0, 1, 1, {}) EXCEPT !.place = "cut"],
        [H(0, 0, 1, 1, {}) EXCEPT !.p_type = "other"]}

File(ident, type, headers) == [ident |-> ident, e_type |-> type, len |-> 4, headers |-> headers]
Good == H(2, 4, 2, 2, {"w"})

MCImages ==
    {File("bad", "ET_EXEC", <<>>), File("good", "ET_EXEC", <<>>)}
    \cup {File("good", "ET_EXEC", <<s>>) : s \in Segments \cup Odd}
    \cup {File("good", "ET_DYN", <<s, Good>>) : s \in Odd}
    \cup {File("good", "ET_DYN", <<Good, H(0, 0, 3, 3, {"x"})>>)}

\* The last cells of the segments, of the stack and of the areas, and beyond.
MCTouched == {2, 6, 26, 32, 34, 39}

=============================================================================
