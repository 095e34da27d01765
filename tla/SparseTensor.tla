--------------------------- MODULE SparseTensor ---------------------------
(***************************************************************************)
(* Sparse matrices: how assembly_tensor collects them and how the          *)
(* constructor of sparse_tensor stores them, in blocks of four rows.  A    *)
(* block is as deep as its fullest row; shorter rows are padded with the   *)
(* value 0 in column 0.  The rows that the last block lacks are reserved   *)
(* and never written.                                                      *)
(***************************************************************************)
EXTENDS QirSemantics

\* assembly_tensor: for each row the values by column.
assembly_tensor(n) == [row \in 0 .. (n - 1) |-> <<>>]
add_nonzero(data, row, col, v) ==
    [data EXCEPT ![row] = (col :> (v + (IF col \in DOMAIN @ THEN @[col] ELSE 0))) @@ @]

\* The columns of a row in the order of std::map.
Columns(entries) ==
    LET below(c) == Cardinality({d \in DOMAIN entries : d < c})
    IN  [k \in 1 .. Cardinality(DOMAIN entries) |-> CHOOSE c \in DOMAIN entries : below(c) = k - 1]

sparse_tensor_object(data, shape) ==
    LET n == shape[1]
        blocks == (n + block_width - 1) \div block_width
        rows(b) == {row \in 0 .. (n - 1) : row \div block_width = b}
        depths(b) == {Cardinality(DOMAIN data[row]) : row \in rows(b)}
        max_depth(b) == CHOOSE d \in depths(b) : \A other \in depths(b) : other <= d
        cs[b \in 0 .. blocks] == IF b = 0 THEN 0 ELSE cs[b - 1] + block_width * max_depth(b - 1)
        padded_nnz == cs[blocks]
        block(pos) == CHOOSE b \in 0 .. (blocks - 1) : cs[b] <= pos /\ pos < cs[b + 1]
        \* What is stored at a position: entry j of a row, padding, or nothing.
        stored(pos, entry(_, _)) ==
            LET b == block(pos)
                row == b * block_width + ((pos - cs[b]) % block_width)
                j == (pos - cs[b]) \div block_width
            IN  IF row >= n THEN Undefined
                ELSE IF j < Cardinality(DOMAIN data[row]) THEN Defined(entry(row, Columns(data[row])[j + 1]))
                ELSE Defined(0)
    IN  [data |-> [val |-> Array(<<padded_nnz>>, LAMBDA p : stored(p[1], LAMBDA row, col : data[row][col])),
                   col |-> Array(<<padded_nnz>>, LAMBDA p : stored(p[1], LAMBDA row, col : col)),
                   cs |-> Array(<<blocks>>, LAMBDA p : Defined(cs[p[1]])),
                   cl |-> Array(<<blocks>>, LAMBDA p : Defined(max_depth(p[1])))],
         shape |-> Vector([d \in DOMAIN shape |-> Defined(shape[d])]),
         dense |-> Array(shape, LAMBDA p : Defined(IF p[2] \in DOMAIN data[p[1]] THEN data[p[1]][p[2]] ELSE 0))]
=============================================================================
