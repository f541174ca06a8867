SPECIFICATION Spec
CONSTANTS
    n1 = n1  n2 = n2  a1 = a1  s1 = s1  s2 = s2  s3 = s3
    None = None
    Nodes = {n1, n2}
    Addrs = {a1}
    Sockets = {s1, s2, s3}
    Owner <- MCOwner
    Addr <- MCAddr
SYMMETRY Symmetry
PROPERTIES NotConnectedIsTrue
