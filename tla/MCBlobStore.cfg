SPECIFICATION Spec
CONSTANTS
  Blobs = {b1, b2}
  Nodes = {n1, n2, n3}
  Threads = {t1, t2}
  Absent = Absent
  Text = Text
  NoThread = NoThread
  NoBlob = NoBlob
  Overlap = {"insert", "delete"}
  Faults = {"kill", "power", "put_node", "index"}
  MaxFaults = 2
  MaxRefs = 6
SYMMETRY Symmetry
INVARIANTS RefcountWithinFaults BytesReadable
 
