\* PagedWriter over a new and an existing file, with and without a root
\* header, with writes and chunks that fit, fill and overflow the buffer.
\* PAGE_SIZE 256 and WRITE_BUFFER_SIZE 8192 are scaled to 4 and 8: a page
\* header (at most PAGE_SIZE + 4 bytes) still fits in the buffer.
CONSTANTS
    PageSize = 4
    BufferSize = 8
    StartLens = {0, 5}
    Lens = {1, 3, 8, 9}
    MaxCalls = 3
SPECIFICATION Spec
INVARIANT StreamWritten
INVARIANT ChunksReadBack
CHECK_DEADLOCK FALSE
