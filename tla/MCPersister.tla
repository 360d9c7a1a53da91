----------------------------- MODULE MCPersister -----------------------------
EXTENDS PersisterPair, Functions

Bytes == {<< >>, <<1>>, <<0, 1>>}

\* What can still matter: not the results of the last call, nor the bytes and
\* cursors that no open handle and no path leads to, nor what was synced before
\* the file was truncated.
Live ==
    LET reached == {mockFiles[f].storage : f \in Handles} \cup Range(file_storages)
        image(s) == <<s.in_memory, s.on_disk, s.file_size, Mock!Persisted(s)>>
    IN <<[a \in reached |-> <<image(storages[a]), inodes[a]>>],
         file_storages, directory, fds,
         [f \in DOMAIN mockFiles |-> IF f \in Handles
                                     THEN <<mockFiles[f], realFiles[f]>>
                                     ELSE realFiles[f]],
         Len(storages)>>
=============================================================================
