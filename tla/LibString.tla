------------------------------ MODULE LibString -------------------------------
(***************************************************************************)
(* The loader's string.c.  Memory is a sequence m of bytes, an address an  *)
(* index in it, and a byte the string of one character, NUL being "".      *)
(* Calls that would read or write outside of m are not made.               *)
(***************************************************************************)
EXTENDS Integers, SequencesExt

NUL == ""

\* The characters of s, without its NUL, and the other way round.
Chars(s)   == [k \in 1 .. Len(s) |-> SubSeq(s, k, k)]
Text(chars) == FoldLeft(LAMBDA s, c : s \o c, "", chars)

Count(n) == [i \in 1 .. n |-> i - 1]

strlen(m, s) == CHOOSE i \in 0 .. Len(m) - s :
                    m[s + i] = NUL /\ \A j \in 0 .. i - 1 : m[s + j] # NUL

\* One byte after the other, upwards or downwards.
copy(m, dest, src, order) ==
    FoldLeft(LAMBDA x, i : [x EXCEPT ![dest + i] = x[src + i]], m, order)

memcpy(m, dest, src, n) == copy(m, dest, src, Count(n))

\* Seeded fault: always upwards.
memmove_up(m, dest, src, n) == memcpy(m, dest, src, n)

memmove(m, dest, src, n) ==
    copy(m, dest, src, IF dest < src THEN Count(n) ELSE Reverse(Count(n)))

memset(m, s, c, n) ==
    [k \in DOMAIN m |-> IF k \in s .. s + n - 1 THEN c ELSE m[k]]

\* Whether memcmp returns 0.  --n comes before n is looked at: with n = 0 it
\* wraps, and the bytes are compared until two differ.
memcmp(m, s1, s2, n) ==
    n # 0 /\ \A i \in 0 .. n - 1 : m[s1 + i] = m[s2 + i]

\* The address memchr returns, 0 for NULL: src has been incremented when the
\* byte it pointed to is found to match, so that it is the address behind it.
memchr(m, s, c, n) ==
    LET at == {i \in 0 .. n - 1 : m[s + i] = c}
    IN  IF at = {} THEN 0
        ELSE s + 1 + CHOOSE i \in at : \A j \in at : i <= j

\* The first byte is compared before it is looked at for being the last.
strchr(m, s, c) ==
    LET seek[p \in Int] == IF m[p] = c THEN p
                           ELSE IF m[p + 1] = NUL THEN 0 ELSE seek[p + 1]
    IN  seek[s]

\* Whether strcmp returns 0: lengths first, then bytes.
strcmp(m, s1, s2) ==
    /\ strlen(m, s1) = strlen(m, s2)
    /\ \A i \in 0 .. strlen(m, s1) - 1 : m[s1 + i] = m[s2 + i]

\* The bytes first, the NUL last.
put_string(m, dest, src, n) == [memcpy(m, dest, src, n) EXCEPT ![dest + n] = NUL]

strcpy(m, dest, src) == put_string(m, dest, src, strlen(m, src))
strcat(m, dest, src) ==
    put_string(m, dest + strlen(m, dest), src, strlen(m, src))

\* Takes the length of src, which need not end in a NUL before n bytes.
strncat(m, dest, src, n) ==
    put_string(m, dest + strlen(m, dest), src,
               IF strlen(m, src) < n THEN strlen(m, src) ELSE n)
=============================================================================
