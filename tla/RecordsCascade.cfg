SPECIFICATION Spec
CONSTANTS
  Types = {"company", "employee"}
  Describe <- MCDescribe
  Items <- MCItems
  Queries <- MCQueries
  Half32 = 4
  Half64 = 16
  MaxRow = 2
  Null = Null
  NaN = NaN
  Undefined = Undefined
  Refused = Refused
PROPERTY
  EmployeesGoWithTheirCompany
